---- MODULE Spec2Model ----
(***************************************************************************)
(* CXL mailbox command processor of hw/cxl/cxl-mailbox-utils.c: the        *)
(* dispatcher cxl_process_cci_message, the background operation tracker    *)
(* (cci->bg and bg_timercb), the sanitize and media/poison handlers.       *)
(* Times are in milliseconds of QEMU_CLOCK_VIRTUAL, addresses are device   *)
(* physical addresses in bytes.                                            *)
(***************************************************************************)
EXTENDS Integers, Sequences, FiniteSets, TLC

VARIABLES
    cxl_cmd_set,            \* cci->cxl_cmd_set: the opcodes with a handler
    bg,                     \* cci->bg: opcode, complete_pct, ret_code, starttime, runtime
    bg_timer,               \* expire time of cci->bg.timer, NoTimer when not pending
    clock_ms,               \* qemu_clock_get_ms(QEMU_CLOCK_VIRTUAL)
    media_enabled,          \* media status of the device (cxl_dev_{en,dis}able_media)
    poison_list,            \* ct3d->poison_list, head first
    poison_list_cnt,        \* ct3d->poison_list_cnt
    poison_list_bkp,        \* ct3d->poison_list_bkp, head first
    scan_media_results,     \* ct3d->scan_media_results, head first
    poison_list_overflowed, \* ct3d->poison_list_overflowed
    scan_media_hasrun,      \* ct3d->scan_media_hasrun
    dc,                     \* ct3d->dc: regions, total_capacity, extents, ...
    static_mem_size,        \* cxl_dstate->static_mem_size (vmem_size + pmem_size)
    msi_count,              \* number of msix_notify/msi_notify calls made
    bg_ticks,               \* history: bg_timercb runs since the operation started
    scan_start,             \* history: <<overflow flag, records not inserted>> when
                            \* the last scan media started
    cel_log,                \* cci->cel_log[0 .. cci->cel_size - 1]
    per_thread,             \* test_policy_ctl.c: test_per_thread and its threads
    last                    \* outcome of the last step (command, status, ...)

vars == <<cxl_cmd_set, bg, bg_timer, clock_ms, media_enabled, poison_list,
          poison_list_cnt, poison_list_bkp, scan_media_results,
          poison_list_overflowed, scan_media_hasrun, static_mem_size,
          msi_count, bg_ticks, last, dc, cel_log, per_thread, scan_start>>

(***************************************************************************)
(* Bounds of the model.                                                    *)
(***************************************************************************)
\* A background-capable command is only issued up to this time, so that the
\* clock stays bounded.
MaxTime == 1000

\* The amounts by which the virtual clock advances in one step.
ClockSteps == {500}

\* Total static capacities of the device (bytes): 512 MiB.
StaticSizes == {512 * 1024 * 1024}

\* Device physical addresses used by inject/clear poison and scan media.
DPAs == {0, 64}

(***************************************************************************)
(* Protocol constants.                                                     *)
(***************************************************************************)
MiB == 1024 * 1024

CXL_MBOX_BG_UPDATE_FREQ == 1000

CXL_CACHE_LINE_SIZE == 64

CXL_POISON_LIST_LIMIT == 256

CXL_MAILBOX_MAX_PAYLOAD_SIZE == 2048

CXL_MBOX_BACKGROUND_OPERATION == 64

CXL_POISON_TYPE_EXTERNAL == 1

CXL_POISON_TYPE_INTERNAL == 2

CXL_POISON_TYPE_INJECTED == 3

\* A required input length of ~0: any length is accepted.
LenAny == -1

\* An effect field of ~0 (uint16_t).
EffectAll == 65535

NoTimer == -1

MAX(a, b) == IF a > b THEN a ELSE b

MIN(a, b) == IF a < b THEN a ELSE b

\* (set << 8) | cmd
Opcode(set, cmd) == set * 256 + cmd

INFOSTAT == 0
EVENTS == 1
FIRMWARE_UPDATE == 2
TIMESTAMP == 3
LOGS == 4
IDENTIFY == 64
CCLS == 65
MEDIA_AND_POISON == 67
SANITIZE == 68
PERSISTENT_MEM == 69
DCD_CONFIG == 72
PHYSICAL_SWITCH == 81
TUNNEL == 83
MHD == 85

OP_SANITIZE_OVERWRITE == Opcode(SANITIZE, 0)

OP_SCAN_MEDIA == Opcode(MEDIA_AND_POISON, 4)

OP_BG_OP_STATUS == Opcode(INFOSTAT, 2)

OP_GET_POISON_LIST == Opcode(MEDIA_AND_POISON, 0)

OP_INJECT_POISON == Opcode(MEDIA_AND_POISON, 1)

OP_CLEAR_POISON == Opcode(MEDIA_AND_POISON, 2)

OP_GET_SCAN_MEDIA_RESULTS == Opcode(MEDIA_AND_POISON, 5)

OP_INFOSTAT_IDENTIFY == Opcode(INFOSTAT, 1)

OP_TUNNEL_MANAGEMENT == Opcode(TUNNEL, 0)

OP_GET_DYN_CAP_EXT_LIST == Opcode(DCD_CONFIG, 1)

OP_ADD_DYN_CAP_RSP == Opcode(DCD_CONFIG, 2)

OP_RELEASE_DYN_CAP == Opcode(DCD_CONFIG, 3)

\* An opcode that no command table populates.
OP_UNKNOWN == Opcode(127, 0)

(***************************************************************************)
(* The command tables: opcode -> <<handler, in, effect>>.                  *)
(***************************************************************************)
Cmd(h, in, effect) == [in |-> in, effect |-> effect, handler |-> h]

\* static const struct cxl_cmd cxl_cmd_set[256][256]
cxl_cmd_set_t3 ==
    (Opcode(EVENTS, 0) :> Cmd("cmd_events_get_records", 1, 0)) @@
    (Opcode(EVENTS, 1) :> Cmd("cmd_events_clear_records", LenAny, 16)) @@
    (Opcode(EVENTS, 2) :> Cmd("cmd_events_get_interrupt_policy", 0, 0)) @@
    (Opcode(EVENTS, 3) :> Cmd("cmd_events_set_interrupt_policy", LenAny, 2)) @@
    (Opcode(FIRMWARE_UPDATE, 0) :> Cmd("cmd_firmware_update_get_info", 0, 0)) @@
    (Opcode(TIMESTAMP, 0) :> Cmd("cmd_timestamp_get", 0, 0)) @@
    (Opcode(TIMESTAMP, 1) :> Cmd("cmd_timestamp_set", 8, 8)) @@
    (Opcode(LOGS, 0) :> Cmd("cmd_logs_get_supported", 0, 0)) @@
    (Opcode(LOGS, 1) :> Cmd("cmd_logs_get_log", 24, 0)) @@
    (Opcode(IDENTIFY, 0) :> Cmd("cmd_identify_memory_device", 0, 0)) @@
    (Opcode(CCLS, 0) :> Cmd("cmd_ccls_get_partition_info", 0, 0)) @@
    (Opcode(CCLS, 2) :> Cmd("cmd_ccls_get_lsa", 8, 0)) @@
    (Opcode(CCLS, 3) :> Cmd("cmd_ccls_set_lsa", LenAny, 2 + 4)) @@
    (Opcode(SANITIZE, 0) :> Cmd("cmd_sanitize_overwrite", 0, 4 + 32 + 64)) @@
    (Opcode(PERSISTENT_MEM, 0) :> Cmd("cmd_get_security_state", 0, 0)) @@
    (Opcode(MEDIA_AND_POISON, 0) :> Cmd("cmd_media_get_poison_list", 16, 0)) @@
    (Opcode(MEDIA_AND_POISON, 1) :> Cmd("cmd_media_inject_poison", 8, 0)) @@
    (Opcode(MEDIA_AND_POISON, 2) :> Cmd("cmd_media_clear_poison", 72, 0)) @@
    (Opcode(MEDIA_AND_POISON, 3) :>
         Cmd("cmd_media_get_scan_media_capabilities", 16, 0)) @@
    (Opcode(MEDIA_AND_POISON, 4) :> Cmd("cmd_media_scan_media", 17, 64)) @@
    (Opcode(MEDIA_AND_POISON, 5) :>
         Cmd("cmd_media_get_scan_media_results", 0, 0)) @@
    (Opcode(MHD, 0) :> Cmd("cmd_mhd_get_info", 2, 0))

\* static const struct cxl_cmd cxl_cmd_set_sw[256][256]
cxl_cmd_set_sw ==
    (Opcode(INFOSTAT, 1) :> Cmd("cmd_infostat_identify", 0, 18)) @@
    (Opcode(INFOSTAT, 2) :> Cmd("cmd_infostat_bg_op_sts", 0, 8)) @@
    (Opcode(TIMESTAMP, 0) :> Cmd("cmd_timestamp_get", 0, 0)) @@
    (Opcode(TIMESTAMP, 1) :> Cmd("cmd_timestamp_set", 8, 8)) @@
    (Opcode(LOGS, 0) :> Cmd("cmd_logs_get_supported", 0, 0)) @@
    (Opcode(LOGS, 1) :> Cmd("cmd_logs_get_log", 24, 0)) @@
    (Opcode(PHYSICAL_SWITCH, 0) :> Cmd("cmd_identify_switch_device", 0, 73)) @@
    (Opcode(PHYSICAL_SWITCH, 1) :>
         Cmd("cmd_get_physical_port_state", LenAny, EffectAll)) @@
    (Opcode(TUNNEL, 0) :> Cmd("cmd_tunnel_management_cmd", LenAny, EffectAll))

\* static const struct cxl_cmd cxl_cmd_set_t3_mctp[256][256]
cxl_cmd_set_t3_mctp ==
    (Opcode(INFOSTAT, 1) :> Cmd("cmd_infostat_identify", 0, 18))

\* static const struct cxl_cmd cxl_cmd_set_dcd[256][256]
cxl_cmd_set_dcd ==
    (Opcode(DCD_CONFIG, 0) :> Cmd("cmd_dcd_get_dyn_cap_config", 2, 0)) @@
    (Opcode(DCD_CONFIG, 1) :> Cmd("cmd_dcd_get_dyn_cap_ext_list", 8, 0)) @@
    (Opcode(DCD_CONFIG, 2) :> Cmd("cmd_dcd_add_dyn_cap_rsp", LenAny, 4)) @@
    (Opcode(DCD_CONFIG, 3) :> Cmd("cmd_dcd_release_dyn_cap", LenAny, 4))

\* The descriptor stored in a populated slot; the tables agree on the
\* opcodes they share.
Descriptor(op) ==
    IF op \in DOMAIN cxl_cmd_set_t3 THEN cxl_cmd_set_t3[op]
    ELSE IF op \in DOMAIN cxl_cmd_set_dcd THEN cxl_cmd_set_dcd[op]
    ELSE IF op \in DOMAIN cxl_cmd_set_sw THEN cxl_cmd_set_sw[op]
    ELSE cxl_cmd_set_t3_mctp[op]

(***************************************************************************)
(* The Command Effects Log.                                                *)
(***************************************************************************)
\* One struct cel_log: the opcode (set << 8) | cmd of a populated slot and
\* the effect of the command stored there.
CelEntry(op) == [effect |-> Descriptor(op).effect, opcode |-> op]

\* The loops of cxl_rebuild_cel over set and cmd: the populated slots are
\* visited in the order of (set << 8) | cmd and each one is appended at
\* cel_log[cel_size].
RECURSIVE RebuildLoop(_, _)
RebuildLoop(slots, log) ==
    IF slots = {} THEN log
    ELSE LET op == CHOOSE o \in slots : \A q \in slots : o <= q
         IN RebuildLoop(slots \ {op}, Append(log, CelEntry(op)))

\* cxl_rebuild_cel: cel_size = 0, then the loops.
cxl_rebuild_cel(table) == RebuildLoop(table, <<>>)

\* cxl_copy_cci_commands: every populated slot of cmds is stored in the table.
cxl_copy_cci_commands(table, cmds) == table \cup DOMAIN cmds

\* The merge without the rebuild.
cxl_add_cci_commands_NoRebuild(table, cel, cmds) ==
    [table |-> cxl_copy_cci_commands(table, cmds), cel |-> cel]

\* cxl_add_cci_commands: the copy, then cxl_rebuild_cel.
cxl_add_cci_commands(table, cel, cmds) ==
    LET t == cxl_copy_cci_commands(table, cmds)
    IN [table |-> t, cel |-> cxl_rebuild_cel(t)]

\* effect & CXL_MBOX_BACKGROUND_OPERATION
IsBackgroundCapable(d) ==
    (d.effect \div CXL_MBOX_BACKGROUND_OPERATION) % 2 = 1


(***************************************************************************)
(* The device state a handler reads and writes, as one record.             *)
(***************************************************************************)
\* ct3d->dc of a device with the regions given: no extent yet.
DynCap(regions, capacity) ==
    [regions |-> regions, total_capacity |-> capacity, extents |-> <<>>,
     total_extent_count |-> 0, ext_list_gen_seq |-> 0]

\* ct3d->dc of a memory device without dynamic capacity (num_regions = 0).
NoDc == DynCap(<<>>, 0)

DevState ==
    [bg |-> bg,
     media_enabled |-> media_enabled,
     poison_list |-> poison_list,
     poison_list_cnt |-> poison_list_cnt,
     poison_list_bkp |-> poison_list_bkp,
     scan_media_results |-> scan_media_results,
     poison_list_overflowed |-> poison_list_overflowed,
     scan_media_hasrun |-> scan_media_hasrun,
     dc |-> dc]

\* What a handler hands back: its return code and the state it leaves.
Ret(code, s) == [ret |-> code, s |-> s]

\* !!cci->bg.runtime && cci->bg.opcode == 0x4400
sanitize_running(b) == b.runtime > 0 /\ b.opcode = OP_SANITIZE_OVERWRITE

\* !!cci->bg.runtime && cci->bg.opcode == 0x4304
scan_media_running(b) == b.runtime > 0 /\ b.opcode = OP_SCAN_MEDIA

\* QLIST_INSERT_HEAD
QLIST_INSERT_HEAD(list, e) == <<e>> \o list

\* QLIST_REMOVE of the element at position i
QLIST_REMOVE(list, i) ==
    [k \in 1..(Len(list) - 1) |-> IF k < i THEN list[k] ELSE list[k + 1]]

CXLPoison(start, length, type) ==
    [start |-> start, length |-> length, type |-> type]

(***************************************************************************)
(* cmd_infostat_bg_op_sts: the Background Operation Status response.       *)
(***************************************************************************)
\* Mutant: the running bit is taken from the opcode.
BgOpStatus_RunningFromOpcode(b) ==
    LET shifted == (b.complete_pct * 2) % 256
    IN [status |-> IF b.opcode > 0 THEN shifted + 1 ELSE shifted,
        opcode |-> b.opcode,
        returncode |-> b.ret_code]

BgOpStatus(b) ==
    LET shifted == (b.complete_pct * 2) % 256   \* uint8_t status = pct << 1
    IN [status |-> IF b.runtime > 0 THEN shifted + 1 ELSE shifted,
        opcode |-> b.opcode,
        returncode |-> b.ret_code]

cmd_infostat_bg_op_sts(s) == Ret("SUCCESS", s)

(***************************************************************************)
(* cmd_sanitize_overwrite                                                  *)
(***************************************************************************)
\* The runtime table, total_mem in MiB.
SanitizeSecs(total_mem) ==
    IF total_mem <= 512 THEN 4
    ELSE IF total_mem <= 1024 THEN 8
    ELSE IF total_mem <= 2 * 1024 THEN 15
    ELSE IF total_mem <= 4 * 1024 THEN 30
    ELSE IF total_mem <= 8 * 1024 THEN 60
    ELSE IF total_mem <= 16 * 1024 THEN 2 * 60
    ELSE IF total_mem <= 32 * 1024 THEN 4 * 60
    ELSE IF total_mem <= 64 * 1024 THEN 8 * 60
    ELSE IF total_mem <= 128 * 1024 THEN 15 * 60
    ELSE IF total_mem <= 256 * 1024 THEN 30 * 60
    ELSE IF total_mem <= 512 * 1024 THEN 60 * 60
    ELSE IF total_mem <= 1024 * 1024 THEN 120 * 60
    ELSE 240 * 60

\* cxl_dev_disable_media
cxl_dev_disable_media(s) == [s EXCEPT !.media_enabled = FALSE]

\* cxl_dev_enable_media
cxl_dev_enable_media(s) == [s EXCEPT !.media_enabled = TRUE]

\* Mutant: the immediate branch is taken up to 4 seconds.
SanitizeResult_Threshold(secs, s) ==
    IF secs > 4
    THEN Ret("BG_STARTED", s)
    ELSE Ret("SUCCESS", cxl_dev_enable_media(s))

\* What the handler returns for a runtime of secs seconds.
SanitizeResult(secs, s) ==
    IF secs > 2
    THEN Ret("BG_STARTED", s)
    ELSE Ret("SUCCESS", cxl_dev_enable_media(s))

cmd_sanitize_overwrite(s, mem_size) ==
    LET secs == SanitizeSecs(mem_size \div MiB)
        s1 == [s EXCEPT !.bg.runtime = secs * 1000]
    IN SanitizeResult(secs, cxl_dev_disable_media(s1))

(***************************************************************************)
(* cmd_media_get_poison_list                                               *)
(***************************************************************************)
\* sizeof(struct get_poison_list_out_pl) and of one of its records
PoisonListHdrSize == 32

PoisonListRecSize == 16

\* ROUND_DOWN(n, 64ull)
ROUND_DOWN(n, d) == n - (n % d)

\* The entries of the live list the two loops do not skip, in list order.
PoisonListMatches(s, query_start, query_length) ==
    SelectSeq(s.poison_list,
              LAMBDA ent : ~(\/ ent.start >= query_start + query_length
                             \/ ent.start + ent.length <= query_start))

\* out_pl_len, a uint16_t
PoisonListOutLen(record_count) ==
    (PoisonListHdrSize + record_count * PoisonListRecSize) % 65536

\* records[i] for the entry ent: addr and length.  start | (type & 0x7) is a
\* sum, start being a multiple of 64.
PoisonListRecord(ent, query_start, query_length) ==
    LET start == MAX(ROUND_DOWN(ent.start, 64), query_start)
        stop == MIN(ROUND_DOWN(ent.start, 64) + ent.length,
                    query_start + query_length)
    IN [addr |-> start + (ent.type % 8),
        length |-> (stop - start) \div CXL_CACHE_LINE_SIZE]

\* The response payload of a successful Get Poison List.
PoisonListResponse(s, pa, nlines) ==
    LET query_length == nlines * CXL_CACHE_LINE_SIZE
        m == PoisonListMatches(s, pa, query_length)
    IN [flags |-> (IF s.poison_list_overflowed THEN 2 ELSE 0)
                      + (IF scan_media_running(s.bg) THEN 4 ELSE 0),
        count |-> Len(m),
        records |-> [i \in 1..Len(m) |->
                        PoisonListRecord(m[i], pa, query_length)],
        len_out |-> PoisonListOutLen(Len(m))]

\* A failed assert() ends the process: the answer "ABORT" stands for it.
cmd_media_get_poison_list(s, pa, nlines) ==
    IF pa % 64 # 0 THEN Ret("INVALID_INPUT", s)
    ELSE
      LET query_length == nlines * CXL_CACHE_LINE_SIZE
          record_count == Len(PoisonListMatches(s, pa, query_length))
      IN IF PoisonListOutLen(record_count) <= CXL_MAILBOX_MAX_PAYLOAD_SIZE
         THEN Ret("SUCCESS", s)
         ELSE Ret("ABORT", s)

(***************************************************************************)
(* The freeze of the live list shared by inject and clear.                 *)
(***************************************************************************)
\* Mutant: the list is never frozen.
PoisonListFrozen_Never(b) == FALSE

\* Freeze the list if there is an on-going scan media operation.
PoisonListFrozen(b) == scan_media_running(b)

(***************************************************************************)
(* cmd_media_inject_poison                                                 *)
(***************************************************************************)
\* Mutant: the end of the line must lie strictly inside the entry.
InjectCovered_Strict(ent, dpa) ==
    /\ dpa >= ent.start
    /\ dpa + CXL_CACHE_LINE_SIZE < ent.start + ent.length

\* The line at dpa is already inside the entry.
InjectCovered(ent, dpa) ==
    /\ dpa >= ent.start
    /\ dpa + CXL_CACHE_LINE_SIZE <= ent.start + ent.length

\* Mutant: the limit is reached only above CXL_POISON_LIST_LIMIT.
InjectAtLimit_Above(cnt) == cnt > CXL_POISON_LIST_LIMIT

\* ct3d->poison_list_cnt == CXL_POISON_LIST_LIMIT
InjectAtLimit(cnt) == cnt = CXL_POISON_LIST_LIMIT

cmd_media_inject_poison(s, dpa) ==
    IF \E i \in 1..Len(s.poison_list) : InjectCovered(s.poison_list[i], dpa)
    THEN Ret("SUCCESS", s)
    ELSE IF PoisonListFrozen(s.bg) THEN Ret("SUCCESS", s)
    ELSE IF InjectAtLimit(s.poison_list_cnt)
    THEN Ret("INJECT_POISON_LIMIT", s)
    ELSE Ret("SUCCESS",
             [s EXCEPT
                 !.poison_list =
                     QLIST_INSERT_HEAD(@, CXLPoison(dpa, CXL_CACHE_LINE_SIZE,
                                                    CXL_POISON_TYPE_INJECTED)),
                 !.poison_list_cnt = @ + 1])

(***************************************************************************)
(* cmd_media_clear_poison (dc.num_regions = 0)                             *)
(***************************************************************************)
\* Mutant: the last entry that contains dpa is taken.
ClearPoisonHit_Last(list, dpa) ==
    LET hits == {i \in 1..Len(list) :
                     dpa >= list[i].start /\ dpa < list[i].start + list[i].length}
    IN IF hits = {} THEN 0 ELSE CHOOSE i \in hits : \A j \in hits : i >= j

\* The entry QLIST_FOREACH stops at: the first one that contains dpa, 0 if none.
ClearPoisonHit(list, dpa) ==
    LET hits == {i \in 1..Len(list) :
                     dpa >= list[i].start /\ dpa < list[i].start + list[i].length}
    IN IF hits = {} THEN 0 ELSE CHOOSE i \in hits : \A j \in hits : i <= j

\* Mutant: the flag is stored by every clear that hits a record.
ClearOverflowed_Stored(flag, dropped) == dropped

\* cxl_set_poison_list_overflowed, called when the tail fragment is dropped
ClearOverflowed(flag, dropped) == IF dropped THEN TRUE ELSE flag

\* Mutant: a tail fragment is also made when the cleared line ends the entry.
ClearHasTail_Always(ent, dpa) ==
    dpa + CXL_CACHE_LINE_SIZE <= ent.start + ent.length

\* dpa + CXL_CACHE_LINE_SIZE < ent->start + ent->length
ClearHasTail(ent, dpa) ==
    dpa + CXL_CACHE_LINE_SIZE < ent.start + ent.length

cmd_media_clear_poison(s, mem_size, dpa, set_cacheline_ok) ==
    IF dpa + CXL_CACHE_LINE_SIZE >= mem_size THEN Ret("INVALID_PA", s)
    ELSE IF ~set_cacheline_ok THEN Ret("INTERNAL_ERROR", s)
    ELSE IF PoisonListFrozen(s.bg) THEN Ret("SUCCESS", s)
    ELSE
      LET i == ClearPoisonHit(s.poison_list, dpa) IN
      IF i = 0 THEN Ret("SUCCESS", s)
      ELSE
        LET ent == s.poison_list[i]
            l0 == QLIST_REMOVE(s.poison_list, i)
            c0 == s.poison_list_cnt - 1
            head == dpa > ent.start
            l1 == IF head
                  THEN QLIST_INSERT_HEAD(l0, CXLPoison(ent.start,
                                                       dpa - ent.start, ent.type))
                  ELSE l0
            c1 == IF head THEN c0 + 1 ELSE c0
            tail == ClearHasTail(ent, dpa)
            full == c1 = CXL_POISON_LIST_LIMIT
            l2 == IF tail /\ ~full
                  THEN QLIST_INSERT_HEAD(l1,
                           CXLPoison(dpa + CXL_CACHE_LINE_SIZE,
                                     ent.start + ent.length
                                         - (dpa + CXL_CACHE_LINE_SIZE),
                                     ent.type))
                  ELSE l1
            c2 == IF tail /\ ~full THEN c1 + 1 ELSE c1
        IN Ret("SUCCESS",
               [s EXCEPT !.poison_list = l2,
                         !.poison_list_cnt = c2,
                         !.poison_list_overflowed =
                             ClearOverflowed(@, tail /\ full)])

(***************************************************************************)
(* cmd_media_scan_media and __do_scan_media (dc.num_regions = 0)           *)
(***************************************************************************)
\* bg.runtime = MAX(1, query_length * (0.0005L / 64)), truncated to uint64_t:
\* one millisecond per 128000 bytes (the inputs used are no exact multiples).
ScanMediaRuntime(query_length) == MAX(1, query_length \div 128000)

\* Does ent overlap [query_start, query_start + query_length)?
ScanOverlaps(ent, query_start, query_length) ==
    ~(\/ ent.start >= query_start + query_length
      \/ ent.start + ent.length <= query_start)

\* One pass of the QLIST_FOREACH_SAFE loop body, for the entry ent; acc holds
\* the poison list, its count, the results list and the entries left in bkp.
ScanBkpStep(ent, acc, query_start, query_length) ==
    IF ~ScanOverlaps(ent, query_start, query_length)
    THEN [acc EXCEPT !.bkp = Append(@, ent)]
    ELSE
      LET room == acc.cnt < CXL_POISON_LIST_LIMIT
          copy == CXLPoison(ent.start, ent.length, ent.type)
      IN [acc EXCEPT
             !.list = IF room THEN QLIST_INSERT_HEAD(@, copy) ELSE @,
             !.cnt = IF room THEN @ + 1 ELSE @,
             !.results = QLIST_INSERT_HEAD(@, copy)]

\* The loop over the entries lo to hi of poison_list_bkp, in list order.  The
\* test on the results of the first half makes that half be computed before
\* the second is begun.
RECURSIVE ScanBkpLoop(_, _, _, _, _, _)
ScanBkpLoop(bkp, lo, hi, acc, query_start, query_length) ==
    IF lo > hi THEN acc
    ELSE IF lo = hi THEN ScanBkpStep(bkp[lo], acc, query_start, query_length)
    ELSE LET mid == (lo + hi) \div 2
             acc1 == ScanBkpLoop(bkp, lo, mid, acc, query_start, query_length)
         IN IF Len(acc1.results) >= 0
            THEN ScanBkpLoop(bkp, mid + 1, hi, acc1, query_start, query_length)
            ELSE acc1

cmd_media_scan_media(s, mem_size, query_start, nlines) ==
    LET query_length == nlines * CXL_CACHE_LINE_SIZE IN
    IF query_start % 64 # 0 THEN Ret("INVALID_INPUT", s)
    ELSE IF query_start + query_length > mem_size THEN Ret("INVALID_PA", s)
    ELSE
      LET killed == s.poison_list_overflowed
          acc0 == [list |-> IF killed THEN <<>> ELSE s.poison_list,
                   cnt |-> IF killed
                           THEN s.poison_list_cnt - Len(s.poison_list)
                           ELSE s.poison_list_cnt,
                   results |-> <<>>,
                   bkp |-> <<>>]
          acc == ScanBkpLoop(s.poison_list_bkp, 1, Len(s.poison_list_bkp),
                             acc0, query_start, query_length)
      IN Ret("BG_STARTED",
             [s EXCEPT !.poison_list = acc.list,
                       !.poison_list_cnt = acc.cnt,
                       !.scan_media_results = acc.results,
                       !.poison_list_bkp = acc.bkp,
                       !.bg.runtime = ScanMediaRuntime(query_length)])

\* Mutant: the scan is not recorded as having run.
do_scan_media_NoHasrun(s) ==
    [s EXCEPT
        !.poison_list_overflowed =
            IF @ /\ s.poison_list_cnt = Len(s.scan_media_results) THEN FALSE ELSE @]

__do_scan_media(s) ==
    [s EXCEPT
        !.poison_list_overflowed =
            IF @ /\ s.poison_list_cnt = Len(s.scan_media_results) THEN FALSE ELSE @,
        !.scan_media_hasrun = TRUE]

(***************************************************************************)
(* cmd_media_get_scan_media_results                                        *)
(***************************************************************************)
\* sizeof(struct get_scan_media_results_out_pl) and of one of its records
ScanResultsHdrSize == 32

ScanResultsRecSize == 16

\* Mutant: a record is counted while the response is not above the limit.
ScanResultsRoom_Inclusive(record_count) ==
    ScanResultsHdrSize + record_count * ScanResultsRecSize
        <= CXL_MAILBOX_MAX_PAYLOAD_SIZE

\* sizeof(*out) + rec_size < CXL_MAILBOX_MAX_PAYLOAD_SIZE
ScanResultsRoom(record_count) ==
    ScanResultsHdrSize + record_count * ScanResultsRecSize
        < CXL_MAILBOX_MAX_PAYLOAD_SIZE

\* The first loop: record_count after visiting n entries.  Each visit adds
\* one while there is room, so the result is n, or the first count that
\* leaves no room.
ScanResultsRecordCount(n) ==
    CHOOSE rc \in 0..n :
        /\ \A r \in 0..(rc - 1) : ScanResultsRoom(r)
        /\ rc = n \/ ~ScanResultsRoom(rc)

\* out_pl_len, a uint16_t
ScanResultsOutLen(record_count) ==
    (ScanResultsHdrSize + record_count * ScanResultsRecSize) % 65536

\* The response payload of a successful Get Scan Media Results: the first
\* record_count entries of the results list.
ScanResultsResponse(s) ==
    LET total_count == Len(s.scan_media_results)
        record_count == ScanResultsRecordCount(total_count)
    IN [flags |-> IF total_count > record_count THEN 1 ELSE 0,
        count |-> record_count,
        records |-> [i \in 1..record_count |->
                        LET ent == s.scan_media_results[i]
                            start == ROUND_DOWN(ent.start, 64)
                            stop == ROUND_DOWN(ent.start, 64) + ent.length
                        IN [addr |-> start + (ent.type % 8),
                            length |-> (stop - start) \div CXL_CACHE_LINE_SIZE]],
        len_out |-> ScanResultsOutLen(record_count)]

cmd_media_get_scan_media_results(s) ==
    IF ~s.scan_media_hasrun THEN Ret("UNSUPPORTED", s)
    ELSE
      LET total_count == Len(s.scan_media_results)
          record_count == ScanResultsRecordCount(total_count)
      IN IF ScanResultsOutLen(record_count) > CXL_MAILBOX_MAX_PAYLOAD_SIZE
         THEN Ret("ABORT", s)
         ELSE Ret("SUCCESS",
                  [s EXCEPT !.scan_media_results =
                                SubSeq(@, record_count + 1, total_count)])

(***************************************************************************)
(* Handlers whose effect lies outside the tracker, the media state and the *)
(* poison lists (events, firmware, timestamp, logs, identify, LSA, ...):   *)
(* the return codes their code can produce.                                *)
(***************************************************************************)
ExternalRets(h) ==
    CASE h = "cmd_events_get_records" -> {"SUCCESS", "INVALID_INPUT"}
      [] h = "cmd_events_clear_records" -> {"SUCCESS", "INVALID_INPUT"}
      [] h = "cmd_events_set_interrupt_policy" ->
             {"SUCCESS", "INVALID_PAYLOAD_LENGTH"}
      [] h = "cmd_firmware_update_get_info" -> {"SUCCESS", "INTERNAL_ERROR"}
      [] h = "cmd_logs_get_log" -> {"SUCCESS", "INVALID_INPUT", "UNSUPPORTED"}
      [] h = "cmd_identify_memory_device" -> {"SUCCESS", "INTERNAL_ERROR"}
      [] h = "cmd_ccls_get_partition_info" -> {"SUCCESS", "INTERNAL_ERROR"}
      [] h = "cmd_ccls_get_lsa" -> {"SUCCESS", "INVALID_INPUT"}
      [] h = "cmd_ccls_set_lsa" -> {"SUCCESS", "INVALID_INPUT"}
      [] h = "cmd_media_get_scan_media_capabilities" ->
             {"SUCCESS", "INVALID_INPUT", "INVALID_PA"}
      [] h = "cmd_mhd_get_info" -> {"SUCCESS", "UNSUPPORTED"}
      [] OTHER -> {"SUCCESS"}

(***************************************************************************)
(* cxl_process_cci_message                                                 *)
(***************************************************************************)
\* A tunnelled request: the size field of the tunnel header, what the port
\* lookup finds behind the port ("none", "type3", "other"), the opcode and
\* the payload length of the embedded message, and the indeterminate value
\* the local variable length_out holds before anything is assigned to it.
\* target_type is 0 for a request to the device at the port.
TunnelRequest(size, target, op, pl_length, uninit) ==
    [op |-> op, size |-> size, target |-> target, pl_length |-> pl_length,
     uninit |-> uninit, target_type |-> 0]

NoTunnel == TunnelRequest(0, "none", 0, 0, 0)

\* The request with in->target_type != 0: addressed to a logical device
\* behind a fabric manager, not to the device at the port.
FabricTunnelRequest(t) == [t EXCEPT !.target_type = 1]

\* The input payload of a command, reduced to the fields the handlers read.
Payload(dpa, nlines, ok, ext) ==
    [nlines |-> nlines, dpa |-> dpa, ok |-> ok, ext |-> ext,
     tunnel |-> NoTunnel, entries |-> <<>>, beyond |-> "zeros",
     extent_cnt |-> 0, start_extent_id |-> 0]

TunnelPayload(t) == [Payload(0, 0, TRUE, "SUCCESS") EXCEPT !.tunnel = t]

\* A Get Dynamic Capacity Extent List request.
ExtListQuery(extent_cnt, start_extent_id) ==
    [Payload(0, 0, TRUE, "SUCCESS") EXCEPT !.extent_cnt = extent_cnt,
                                          !.start_extent_id = start_extent_id]

\* An updated extent list, and what lies past the validator's bitmap.
ExtentListPayload(entries, beyond) ==
    [Payload(0, 0, TRUE, "SUCCESS") EXCEPT !.entries = entries,
                                          !.beyond = beyond]

RECURSIVE cxl_process_cci_message(_, _, _, _, _, _, _, _)

\* sizeof(*is_identify), the output length of cmd_infostat_identify
IdentifyLen == 18

\* 3 * sizeof(uint32_t), the least size field a tunnel request may carry
TunnelMinSize == 12

\* sizeof(CXLCCIMessage)
CCIMessageSize == 12

\* sizeof(*out) of the tunnel response: two 16-bit fields and the message
TunnelOutSize == 16

\* A background tracker with nothing running, as cxl_init_cci leaves it.
IdleTracker ==
    [opcode |-> 0, runtime |-> 0, complete_pct |-> 0, ret_code |-> 0,
     starttime |-> 0]

\* cxl_process_cci_message(&ct3d->vdm_mctp_cci, ...): the embedded message is
\* processed by the target's MCTP interface, whose commands are those of
\* cxl_cmd_set_t3_mctp and whose tracker is its own.
TunnelInner(s, mem_size, t, now) ==
    cxl_process_cci_message([s EXCEPT !.bg = IdleTracker],
                            DOMAIN cxl_cmd_set_t3_mctp, NoTimer, mem_size,
                            t.op, t.pl_length, Payload(0, 0, TRUE, "SUCCESS"),
                            now)

\* The value of length_out after the call: what the handler stored if one
\* ran, else still what the variable held before.
TunnelLengthOut(inner, t) == IF inner.invoked THEN IdentifyLen ELSE t.uninit

\* cmd->in is ~0 here, so the two comparisons of cmd->in with the sizes
\* never reject.  A target_type other than 0 is reported with printf and
\* the handler goes on.
cmd_tunnel_management_cmd(s, t) ==
    IF t.size < TunnelMinSize THEN Ret("INVALID_INPUT", s)
    ELSE IF t.target = "none" THEN Ret("INVALID_INPUT", s)
    ELSE IF t.target = "type3" THEN Ret("SUCCESS", s)
    ELSE Ret("INVALID_INPUT", s)

\* The tunnel response: the embedded return code and the lengths computed
\* from length_out.
TunnelResponse(s, mem_size, t, now) ==
    LET inner == TunnelInner(s, mem_size, t, now)
        length_out == TunnelLengthOut(inner, t)
    IN [rc |-> inner.ret,
        pl_length |-> length_out,
        resp_len |-> (length_out + CCIMessageSize) % 65536,
        len_out |-> length_out + TunnelOutSize]

(***************************************************************************)
(* Dynamic capacity: the region table, the extent list and the validation  *)
(* of an updated extent list.                                              *)
(***************************************************************************)
\* CXLDCDRegion, reduced to the fields the handlers read.
CXLDCDRegion(base, len, block_size) ==
    [base |-> base, len |-> len, block_size |-> block_size]

\* CXLDCDExtent; the tag is 0 for sixteen zero bytes.
CXLDCDExtent(start_dpa, len, tag, shared_seq) ==
    [len |-> len, start_dpa |-> start_dpa, tag |-> tag,
     shared_seq |-> shared_seq]

\* An entry of updated_dc_extent_list_in_pl.
UpdatedEntry(start_dpa, len) == [len |-> len, start_dpa |-> start_dpa]

\* tag == NULL
NullTag == 0

Min(S) == CHOOSE x \in S : \A y \in S : x <= y

Max(S) == CHOOSE x \in S : \A y \in S : x >= y

\* Mutant: an address resolves to a region only if the whole range lies in it.
find_dc_region_Whole(d, dpa, len) ==
    LET S == {i \in 1..Len(d.regions) :
                  /\ dpa >= d.regions[i].base
                  /\ dpa + len <= d.regions[i].base + d.regions[i].len}
    IN IF S = {} THEN 0 ELSE Max(S)

\* The index of the region the address belongs to, 0 for NULL.  The length
\* is not read.
cxl_find_dc_region(d, dpa, len) ==
    IF \/ dpa < d.regions[1].base
       \/ dpa >= d.regions[1].base + d.total_capacity
    THEN 0
    ELSE LET S == {i \in 1..Len(d.regions) : dpa >= d.regions[i].base}
         IN IF S = {} THEN 0 ELSE Max(S)

\* cxl_insert_extent_to_extent_list: QTAILQ_INSERT_TAIL of a new extent.
cxl_insert_extent_to_extent_list(list, dpa, len, tag, shared_seq) ==
    Append(list, CXLDCDExtent(dpa, len, tag, shared_seq))

BITS_PER_LONG == 64

\* The number of bits of the longs that bitmap_new(nbits) allocates.
BitmapAllocated(nbits) ==
    ((nbits + BITS_PER_LONG - 1) \div BITS_PER_LONG) * BITS_PER_LONG

\* What an access past the longs allocated for the bitmap meets: memory that
\* reads as zeros or as ones and takes the bits written, or the end of the
\* process.
BeyondBitmap == {"zeros", "ones", "abort"}

\* Bit i of the bitmap: set by bitmap_set, else zero inside the allocation
\* and whatever the memory holds past it.
BitAt(bits, alloc, beyond, i) == i \in bits \/ (i >= alloc /\ beyond = "ones")

\* Mutant: a range with one bit set is reported.
test_bits_Any(bits, alloc, beyond, nr, size) ==
    size = 0 \/ \E i \in nr..(nr + size - 1) : BitAt(bits, alloc, beyond, i)

\* find_next_zero_bit(addr, size + nr, nr) >= nr + size: all the bits of
\* [nr, nr + size) are set.
test_bits(bits, alloc, beyond, nr, size) ==
    \A i \in nr..(nr + size - 1) : BitAt(bits, alloc, beyond, i)

\* MIN over the regions of region->block_size
min_block_size(d) == Min({d.regions[i].block_size : i \in 1..Len(d.regions)})

\* The size of blk_bitmap in bits.
BlkBitmapBits(d) ==
    LET lastregion == d.regions[Len(d.regions)]
    IN (lastregion.len + lastregion.base - d.regions[1].base)
           \div min_block_size(d)

\* The bits [nr, nr + size) are not all among the longs allocated.
PastBitmap(d, nr, size) ==
    size > 0 /\ nr + size > BitmapAllocated(BlkBitmapBits(d))

\* The loop of cxl_detect_malformed_extent_list from entry i on; bits are
\* the bits of blk_bitmap set so far.
RECURSIVE DetectLoop(_, _, _, _, _)
DetectLoop(d, in, i, bits, beyond) ==
    IF i > Len(in) THEN "SUCCESS"
    ELSE
      LET dpa == in[i].start_dpa
          len == in[i].len
          region == cxl_find_dc_region(d, dpa, len)
          nr == dpa \div min_block_size(d)
          size == len \div min_block_size(d)
      IN IF region = 0 THEN "INVALID_PA"
         ELSE IF \/ dpa % d.regions[region].block_size # 0
                 \/ len % d.regions[region].block_size # 0
         THEN "INVALID_EXTENT_LIST"
         ELSE IF PastBitmap(d, nr, size) /\ beyond = "abort" THEN "ABORT"
         ELSE IF test_bits(bits, BitmapAllocated(BlkBitmapBits(d)), beyond,
                           nr, size)
         THEN "INVALID_EXTENT_LIST"
         ELSE DetectLoop(d, in, i + 1, bits \cup (nr..(nr + size - 1)), beyond)

\* The function only checks the input extent list against itself.
cxl_detect_malformed_extent_list(d, in, beyond) ==
    DetectLoop(d, in, 1, {}, beyond)

\* Mutant: a list rejected as malformed for its extents is committed.
DetectPassed_Lax(ret) == ret \in {"SUCCESS", "INVALID_EXTENT_LIST"}

\* ret == CXL_MBOX_SUCCESS after cxl_detect_malformed_extent_list
DetectPassed(ret) == ret = "SUCCESS"

\* ent->start_dpa <= dpa && dpa + len <= ent->start_dpa + ent->len
ExtentContains(ent, dpa, len) ==
    ent.start_dpa <= dpa /\ dpa + len <= ent.start_dpa + ent.len

\* Overlapping one end of the other.
ExtentOverlapsEnd(ent, dpa, len) ==
    \/ dpa < ent.start_dpa + ent.len /\ dpa + len > ent.start_dpa + ent.len
    \/ dpa < ent.start_dpa /\ dpa + len > ent.start_dpa

\* Mutant: only an exact match with an existing extent is refused.
AddRefused_Exact(ent, dpa, len) == ent.start_dpa = dpa /\ ent.len = len

\* The three checks of the to-be-added extent against an existing one.
AddRefused(ent, dpa, len) ==
    \/ ent.start_dpa = dpa /\ ent.len = len
    \/ ExtentContains(ent, dpa, len)
    \/ ExtentOverlapsEnd(ent, dpa, len)

\* The loop of cmd_dcd_add_dyn_cap_rsp from entry i on.
RECURSIVE AddLoop(_, _, _)
AddLoop(s, in, i) ==
    IF i > Len(in) THEN Ret("SUCCESS", s)
    ELSE
      LET dpa == in[i].start_dpa
          len == in[i].len
          list == s.dc.extents
      IN IF \E k \in 1..Len(list) : AddRefused(list[k], dpa, len)
         THEN Ret("INVALID_PA", s)
         ELSE AddLoop([s EXCEPT !.dc.extents =
                           cxl_insert_extent_to_extent_list(@, dpa, len,
                                                            NullTag, 0)],
                      in, i + 1)

cmd_dcd_add_dyn_cap_rsp(s, in, beyond) ==
    IF Len(in) = 0 THEN Ret("SUCCESS", s)
    ELSE
      LET ret == cxl_detect_malformed_extent_list(s.dc, in, beyond)
      IN IF ~DetectPassed(ret) THEN Ret(ret, s)
         ELSE AddLoop(s, in, 1)

\* The list without its k-th element (QTAILQ_REMOVE).
RemoveAt(list, k) ==
    [j \in 1..(Len(list) - 1) |-> IF j < k THEN list[j] ELSE list[j + 1]]

\* Mutant: only the remainder before the released range is inserted.
InsertRemainders_First(list, ent, dpa, len) ==
    IF dpa - ent.start_dpa # 0
    THEN cxl_insert_extent_to_extent_list(list, ent.start_dpa,
                                          dpa - ent.start_dpa, NullTag, 0)
    ELSE list

\* The list after the remainders of ent around [dpa, dpa + len) are inserted.
InsertRemainders(list, ent, dpa, len) ==
    LET len1 == dpa - ent.start_dpa
        len2 == ent.start_dpa + ent.len - dpa - len
        l1 == IF len1 # 0
              THEN cxl_insert_extent_to_extent_list(list, ent.start_dpa, len1,
                                                    NullTag, 0)
              ELSE list
    IN IF len2 # 0
       THEN cxl_insert_extent_to_extent_list(l1, dpa + len, len2, NullTag, 0)
       ELSE l1

\* The loop of cmd_dcd_release_dyn_cap from entry i on.  The inner loop stops
\* at the first extent that contains the entry or overlaps one end of it.
RECURSIVE ReleaseLoop(_, _, _)
ReleaseLoop(s, in, i) ==
    IF i > Len(in) THEN Ret("SUCCESS", s)
    ELSE
      LET dpa == in[i].start_dpa
          len == in[i].len
          list == s.dc.extents
          K == {k \in 1..Len(list) : \/ ExtentContains(list[k], dpa, len)
                                     \/ ExtentOverlapsEnd(list[k], dpa, len)}
      IN IF K = {} THEN Ret("INVALID_PA", s)
         ELSE IF ~ExtentContains(list[Min(K)], dpa, len)
         THEN Ret("INVALID_EXTENT_LIST", s)
         ELSE ReleaseLoop(
                  [s EXCEPT !.dc.extents =
                       RemoveAt(InsertRemainders(@, list[Min(K)], dpa, len),
                                Min(K))],
                  in, i + 1)

\* Mutant: a list without entries is validated and committed as any other.
cmd_dcd_release_dyn_cap_NoEmptyTest(s, in, beyond) ==
    LET ret == cxl_detect_malformed_extent_list(s.dc, in, beyond)
    IN IF ~DetectPassed(ret) THEN Ret(ret, s)
       ELSE ReleaseLoop(s, in, 1)

cmd_dcd_release_dyn_cap(s, in, beyond) ==
    IF Len(in) = 0 THEN Ret("INVALID_INPUT", s)
    ELSE
      LET ret == cxl_detect_malformed_extent_list(s.dc, in, beyond)
      IN IF ~DetectPassed(ret) THEN Ret(ret, s)
         ELSE ReleaseLoop(s, in, 1)

\* sizeof(struct get_dyn_cap_ext_list_out_pl) and sizeof(CXLDCExtentRaw)
ExtListHdrSize == 16

ExtListRecSize == 40

\* Mutant: the number of extents in the list is used for the total.
ExtListTotal_Counted(d) == Len(d.extents)

\* ct3d->dc.total_extent_count, the total the handler works with.
ExtListTotal(d) == d.total_extent_count

\* MIN(in->extent_cnt, ct3d->dc.total_extent_count - start_extent_id)
ExtListRecordCount(d, extent_cnt, start_extent_id) ==
    Min({extent_cnt, ExtListTotal(d) - start_extent_id})

\* A record of zero bytes, as memset leaves it.
ZeroExtent == CXLDCDExtent(0, 0, NullTag, 0)

\* The response of Get Dynamic Capacity Extent List: the loop skips
\* start_extent_id extents and copies the following ones until record_count
\* are done or the list ends.
ExtListResponse(d, extent_cnt, start_extent_id) ==
    LET record_count == ExtListRecordCount(d, extent_cnt, start_extent_id)
    IN [count |-> record_count,
        total_extents |-> ExtListTotal(d),
        generation_num |-> d.ext_list_gen_seq,
        records |-> [i \in 1..record_count |->
                        IF start_extent_id + i <= Len(d.extents)
                        THEN d.extents[start_extent_id + i]
                        ELSE ZeroExtent],
        len_out |-> ExtListHdrSize + record_count * ExtListRecSize]

cmd_dcd_get_dyn_cap_ext_list(s, extent_cnt, start_extent_id) ==
    IF start_extent_id > ExtListTotal(s.dc) THEN Ret("INVALID_INPUT", s)
    ELSE IF ExtListHdrSize
                + ExtListRecordCount(s.dc, extent_cnt, start_extent_id)
                      * ExtListRecSize > CXL_MAILBOX_MAX_PAYLOAD_SIZE
    THEN Ret("ABORT", s)
    ELSE Ret("SUCCESS", s)

\* ret = (*h)(cxl_cmd, pl_in, len_in, pl_out, len_out, cci)
InvokeHandler(h, s, mem_size, pl) ==
    CASE h = "cmd_infostat_bg_op_sts" -> cmd_infostat_bg_op_sts(s)
      [] h = "cmd_tunnel_management_cmd" ->
             cmd_tunnel_management_cmd(s, pl.tunnel)
      [] h = "cmd_sanitize_overwrite" -> cmd_sanitize_overwrite(s, mem_size)
      [] h = "cmd_media_get_poison_list" ->
             cmd_media_get_poison_list(s, pl.dpa, pl.nlines)
      [] h = "cmd_media_inject_poison" -> cmd_media_inject_poison(s, pl.dpa)
      [] h = "cmd_media_clear_poison" ->
             cmd_media_clear_poison(s, mem_size, pl.dpa, pl.ok)
      [] h = "cmd_media_scan_media" ->
             cmd_media_scan_media(s, mem_size, pl.dpa, pl.nlines)
      [] h = "cmd_media_get_scan_media_results" ->
             cmd_media_get_scan_media_results(s)
      [] h = "cmd_dcd_get_dyn_cap_ext_list" ->
             cmd_dcd_get_dyn_cap_ext_list(s, pl.extent_cnt, pl.start_extent_id)
      [] h = "cmd_dcd_add_dyn_cap_rsp" ->
             cmd_dcd_add_dyn_cap_rsp(s, pl.entries, pl.beyond)
      [] h = "cmd_dcd_release_dyn_cap" ->
             cmd_dcd_release_dyn_cap(s, pl.entries, pl.beyond)
      [] OTHER -> Ret(pl.ext, s)

\* The response payload, for the handlers whose response the model keeps.
Response(h, s, mem_size, pl, now) ==
    CASE h = "cmd_infostat_bg_op_sts" -> BgOpStatus(s.bg)
      [] h = "cmd_tunnel_management_cmd" ->
             TunnelResponse(s, mem_size, pl.tunnel, now)
      [] h = "cmd_media_get_poison_list" ->
             PoisonListResponse(s, pl.dpa, pl.nlines)
      [] h = "cmd_media_get_scan_media_results" -> ScanResultsResponse(s)
      [] h = "cmd_dcd_get_dyn_cap_ext_list" ->
             ExtListResponse(s.dc, pl.extent_cnt, pl.start_extent_id)
      [] OTHER -> <<>>

\* Mutant: only a payload that is too short is rejected.
LengthMismatch_Short(d, len_in) == len_in < d.in /\ d.in # LenAny

\* len_in != cxl_cmd->in && cxl_cmd->in != ~0
LengthMismatch(d, len_in) == len_in # d.in /\ d.in # LenAny

\* Mutant: the busy check reads the start time, which is 0 for an operation
\* started at time 0.
BgBusy_WrongField(d, b) == IsBackgroundCapable(d) /\ b.starttime > 0

\* Only one bg command at a time.
BgBusy(d, b) == IsBackgroundCapable(d) /\ b.runtime > 0

\* Mutant: the list without the LSA read.
MediaGatedHandlers_NoGetLsa ==
    {"cmd_events_get_records", "cmd_ccls_get_partition_info",
     "cmd_ccls_set_lsa", "cmd_logs_get_log",
     "cmd_media_get_poison_list", "cmd_media_inject_poison",
     "cmd_media_clear_poison", "cmd_sanitize_overwrite"}

\* The handlers forbidden while overwriting.
MediaGatedHandlers ==
    {"cmd_events_get_records", "cmd_ccls_get_partition_info",
     "cmd_ccls_set_lsa", "cmd_ccls_get_lsa", "cmd_logs_get_log",
     "cmd_media_get_poison_list", "cmd_media_inject_poison",
     "cmd_media_clear_poison", "cmd_sanitize_overwrite"}

MediaDisabled(d, b) == sanitize_running(b) /\ d.handler \in MediaGatedHandlers

\* Mutant: the progress of the previous operation is kept.
BgStart_KeepPct(b, op, now) ==
    [b EXCEPT !.opcode = op, !.ret_code = 0, !.starttime = now]

\* The tracker as set when a background operation starts at time now.
BgStart(b, op, now) ==
    [b EXCEPT !.opcode = op, !.complete_pct = 0, !.ret_code = 0,
              !.starttime = now]

\* Mutant: the timer is not armed.
TimerNext_NotArmed(now) == NoTimer

\* timer_mod(cci->bg.timer, now + CXL_MBOX_BG_UPDATE_FREQ)
TimerNext(now) == now + CXL_MBOX_BG_UPDATE_FREQ

\* A rejection by the dispatcher: no handler runs.
Rejected(code, s, timer) ==
    [ret |-> code, invoked |-> FALSE, bg_started |-> FALSE, s |-> s,
     timer |-> timer, out |-> <<>>]

cxl_process_cci_message(s, table, timer, mem_size, op, len_in, pl, now) ==
    IF op \notin table THEN Rejected("UNSUPPORTED", s, timer)
    ELSE
      LET d == Descriptor(op) IN
      IF LengthMismatch(d, len_in)
      THEN Rejected("INVALID_PAYLOAD_LENGTH", s, timer)
      ELSE IF BgBusy(d, s.bg) THEN Rejected("BUSY", s, timer)
      ELSE IF MediaDisabled(d, s.bg) THEN Rejected("MEDIA_DISABLED", s, timer)
      ELSE
        LET r == InvokeHandler(d.handler, s, mem_size, pl)
            bg_started == IsBackgroundCapable(d) /\ r.ret = "BG_STARTED"
        IN [ret |-> r.ret,
            invoked |-> TRUE,
            bg_started |-> bg_started,
            s |-> IF bg_started
                  THEN [r.s EXCEPT !.bg = BgStart(@, op, now)]
                  ELSE r.s,
            timer |-> IF bg_started THEN TimerNext(now) ELSE timer,
            out |-> IF r.ret = "SUCCESS" 
                    THEN Response(d.handler, s, mem_size, pl, now)
                    ELSE <<>>]

(***************************************************************************)
(* bg_timercb                                                              *)
(***************************************************************************)
\* Mutant: done only once the end time has passed.
TickDone_Strict(now, total_time) == now > total_time

\* now >= total_time: we are done
TickDone(now, total_time) == now >= total_time

\* estimate only: 100 * now / total_time
TickProgress(now, total_time) == (100 * now) \div total_time

\* Mutant: the media is not enabled again after a sanitize.
TickComplete_NoEnable(s) ==
    CASE s.bg.opcode = OP_SANITIZE_OVERWRITE -> s
      [] s.bg.opcode = OP_SCAN_MEDIA -> __do_scan_media(s)

\* The completion side effect, by opcode.
TickComplete(s) ==
    CASE s.bg.opcode = OP_SANITIZE_OVERWRITE -> cxl_dev_enable_media(s)
      [] s.bg.opcode = OP_SCAN_MEDIA -> __do_scan_media(s)

\* Mutant: every run of the callback notifies.
TickNotifies_Always(complete_pct) == complete_pct >= 0

\* Does this run notify the host (msix_notify / msi_notify)?
TickNotifies(complete_pct) == complete_pct = 100

\* Mutant: the finalizing run schedules the callback again.
TickTimer_Rearm(done, now) == TimerNext(now)

\* The timer after a run: the fired timer is not pending; only the branch
\* that is not done calls timer_mod.
TickTimer(done, now) == IF done THEN NoTimer ELSE TimerNext(now)

\* A run that fails assert(cci->bg.runtime > 0) ends the process: abort is
\* TRUE and nothing else is done.
bg_timercb(s, now) ==
    LET total_time == s.bg.starttime + s.bg.runtime
        done == TickDone(now, total_time)
        s1 == IF done
              THEN [TickComplete(s) EXCEPT !.bg.complete_pct = 100,
                                           !.bg.ret_code = 0]
              ELSE [s EXCEPT !.bg.complete_pct = TickProgress(now, total_time)]
        finished == s1.bg.complete_pct = 100
    IN IF ~(s.bg.runtime > 0)
       THEN [s |-> s, timer |-> NoTimer, notify |-> 0, abort |-> TRUE]
       ELSE [s |-> IF finished
                   THEN [s1 EXCEPT !.bg.starttime = 0, !.bg.runtime = 0]
                   ELSE s1,
             timer |-> TickTimer(done, now),
             notify |-> IF TickNotifies(s1.bg.complete_pct) THEN 1 ELSE 0,
             abort |-> FALSE]

\* test_policy_ctl.c at the call of test_per_thread with nthreads = n: no
\* thread is created, the loop variable i has just been set to 0.  pc is
\* the place of the main thread, thd the threads created so far, after
\* what names the object that follows status in the frame of the build.
test_per_thread_Start(n, after) ==
    [i |-> 0, j |-> 0, after |-> after, nthreads |-> n, pc |-> "create",
     thd |-> <<>>]

\* The test program of a run that only exercises the device.
TestNotStarted == test_per_thread_Start(1, "pad")

\* No scan media has started.
NoScan == <<FALSE, 0>>

\* The overlapping ground-truth records that the scan started by the step
\* from s to s2 moved into the results but not into the live list.
ScanNotInserted(s, s2) ==
    Len(s2.scan_media_results)
        - (Len(s2.poison_list)
               - (IF s.poison_list_overflowed THEN 0 ELSE Len(s.poison_list)))

(***************************************************************************)
(* The state machine.                                                      *)
(***************************************************************************)
\* The ground-truth poison of the media at construction.
BkpInit == <<CXLPoison(64, 64, CXL_POISON_TYPE_INTERNAL)>>

\* No command has been processed by the last step.
NoCommand(kind) ==
    [kind |-> kind, op |-> 0, len_in |-> 0, pl |-> Payload(0, 0, TRUE, "SUCCESS"),
     ret |-> "NONE", invoked |-> FALSE, bg_started |-> FALSE, out |-> <<>>]

\* The command table after cxl_initialize_mailbox_t3 (a memory device without
\* dynamic capacity regions) and after cxl_initialize_mailbox_swcci (a switch).
InitialTables == {DOMAIN cxl_cmd_set_t3, DOMAIN cxl_cmd_set_sw}

\* cxl_init_cci, called by either of them.
Init ==
    /\ cxl_cmd_set \in InitialTables
    /\ cel_log = cxl_rebuild_cel(cxl_cmd_set)
    /\ per_thread = TestNotStarted
    /\ scan_start = NoScan
    /\ bg = IdleTracker
    /\ bg_timer = NoTimer
    /\ clock_ms = 0
    /\ media_enabled = TRUE
    /\ poison_list = <<>>
    /\ poison_list_cnt = 0
    /\ poison_list_bkp = BkpInit
    /\ scan_media_results = <<>>
    /\ poison_list_overflowed = FALSE
    /\ scan_media_hasrun = FALSE
    /\ dc = NoDc
    /\ static_mem_size \in StaticSizes
    /\ msi_count = 0
    /\ bg_ticks = 0
    /\ last = NoCommand("init")

\* The device state after a handler or a timer callback.
SetDevState(s) ==
    /\ bg' = s.bg
    /\ media_enabled' = s.media_enabled
    /\ poison_list' = s.poison_list
    /\ poison_list_cnt' = s.poison_list_cnt
    /\ poison_list_bkp' = s.poison_list_bkp
    /\ scan_media_results' = s.scan_media_results
    /\ poison_list_overflowed' = s.poison_list_overflowed
    /\ scan_media_hasrun' = s.scan_media_hasrun
    /\ dc' = s.dc

\* The opcodes the host sends.
Opcodes == DOMAIN cxl_cmd_set_t3 \cup DOMAIN cxl_cmd_set_sw \cup {OP_UNKNOWN}

\* The values tried for the indeterminate length_out.
UninitLens == {0, 7}

\* The tunnel requests tried: a short size field, no device behind the port,
\* a device that is not a memory device, and messages for a memory device
\* that its MCTP interface knows, rejects for their length, or does not know.
TunnelRequests ==
    {TunnelRequest(0, "type3", OP_INFOSTAT_IDENTIFY, 0, 0),
     TunnelRequest(TunnelMinSize, "none", OP_INFOSTAT_IDENTIFY, 0, 0),
     TunnelRequest(TunnelMinSize, "other", OP_INFOSTAT_IDENTIFY, 0, 0),
     FabricTunnelRequest(TunnelRequest(TunnelMinSize, "type3",
                                       OP_INFOSTAT_IDENTIFY, 0, 0))}
    \cup {TunnelRequest(TunnelMinSize, "type3", op, n, u) :
              op \in {OP_INFOSTAT_IDENTIFY, OP_UNKNOWN}, n \in {0, 1},
              u \in UninitLens}

HandlerOf(op) ==
    IF op = OP_UNKNOWN THEN "none" ELSE Descriptor(op).handler

\* The input lengths tried for an opcode: the required one and another.
LenIns(op) ==
    IF op = OP_UNKNOWN THEN {0}
    ELSE LET d == Descriptor(op) IN
         IF d.in = LenAny THEN {0, 8} ELSE {d.in, d.in + 1}

\* Scan Media requests <<start, cache lines>>: one line, the whole device,
\* a misaligned start, a range past the end.
ScanArgs(mem_size) ==
    {<<0, 1>>, <<64, 1>>, <<0, mem_size \div CXL_CACHE_LINE_SIZE>>,
     <<32, 1>>, <<64, mem_size \div CXL_CACHE_LINE_SIZE>>}

\* The payloads tried for an opcode; a request the dispatcher rejects for its
\* opcode or its length is tried with one payload, which is never read.
Payloads(op, len_in, mem_size) ==
    LET h == HandlerOf(op) IN
    CASE h = "none" -> {Payload(0, 0, TRUE, "SUCCESS")}
      [] op \notin cxl_cmd_set -> {Payload(0, 0, TRUE, "SUCCESS")}
      [] h = "cmd_tunnel_management_cmd" ->
             {TunnelPayload(t) : t \in TunnelRequests}
      [] LengthMismatch(Descriptor(op), len_in) -> {Payload(0, 0, TRUE, "SUCCESS")}
      [] h = "cmd_media_inject_poison" ->
             {Payload(a, 0, TRUE, "SUCCESS") : a \in DPAs}
      [] h = "cmd_media_clear_poison" ->
             {Payload(a, 0, ok, "SUCCESS") :
                  a \in DPAs \cup {mem_size - CXL_CACHE_LINE_SIZE}, ok \in BOOLEAN}
      [] h = "cmd_media_get_poison_list" ->
             {Payload(a, 2, TRUE, "SUCCESS") : a \in {0, 32}}
      [] h = "cmd_media_scan_media" ->
             {Payload(q[1], q[2], TRUE, "SUCCESS") : q \in ScanArgs(mem_size)}
      [] OTHER -> {Payload(0, 0, TRUE, e) : e \in ExternalRets(h)}

\* The process has not been ended by a failed assertion.
Alive == last.ret # "ABORT"

\* The host sends one command and the dispatcher processes it.  The mailbox
\* takes one command at a time: the previous response has been read.
Dispatch(op, len_in, pl) ==
    LET r == cxl_process_cci_message(DevState, cxl_cmd_set, bg_timer,
                                     static_mem_size, op, len_in, pl, clock_ms)
    IN /\ last.kind # "dispatch"
       /\ r.bg_started => clock_ms <= MaxTime
       /\ SetDevState(r.s)
       /\ bg_timer' = r.timer
       /\ bg_ticks' = IF r.bg_started THEN 0 ELSE bg_ticks
       /\ scan_start' = IF r.bg_started /\ op = OP_SCAN_MEDIA
                        THEN <<poison_list_overflowed, ScanNotInserted(DevState, r.s)>>
                        ELSE scan_start
       /\ last' = [kind |-> "dispatch", op |-> op, len_in |-> len_in, pl |-> pl,
                   ret |-> r.ret, invoked |-> r.invoked,
                   bg_started |-> r.bg_started, out |-> r.out]
       /\ UNCHANGED <<cxl_cmd_set, clock_ms, static_mem_size, msi_count,
                      cel_log, per_thread>>

\* The host reads the response out of the mailbox.
ReadResponse ==
    /\ last.kind = "dispatch"
    /\ Alive
    /\ last' = NoCommand("read")
    /\ UNCHANGED <<cxl_cmd_set, bg, bg_timer, clock_ms, media_enabled,
                   poison_list, poison_list_cnt, poison_list_bkp,
                   scan_media_results, poison_list_overflowed,
                   scan_media_hasrun, static_mem_size, msi_count, bg_ticks,
                   dc, cel_log, per_thread, scan_start>>

\* The timer expires and the main loop runs bg_timercb.
Tick ==
    /\ Alive
    /\ bg_timer # NoTimer
    /\ clock_ms >= bg_timer
    /\ LET r == bg_timercb(DevState, clock_ms)
       IN /\ SetDevState(r.s)
          /\ bg_timer' = r.timer
          /\ msi_count' = msi_count + r.notify
          /\ last' = IF r.abort
                     THEN [NoCommand("tick") EXCEPT !.ret = "ABORT"]
                     ELSE NoCommand("tick")
    /\ bg_ticks' = bg_ticks + 1
    /\ UNCHANGED <<cxl_cmd_set, clock_ms, static_mem_size, cel_log, per_thread,
                   scan_start>>

\* Virtual time passes.  Past MaxTime it only runs up to the pending timer.
AdvanceClock(d) ==
    /\ Alive
    /\ \/ clock_ms < MaxTime
       \/ bg_timer # NoTimer /\ clock_ms < bg_timer
    /\ clock_ms' = clock_ms + d
    /\ last' = NoCommand("clock")
    /\ UNCHANGED <<cxl_cmd_set, bg, bg_timer, media_enabled, poison_list,
                   poison_list_cnt, poison_list_bkp, scan_media_results,
                   poison_list_overflowed, scan_media_hasrun, static_mem_size,
                   msi_count, bg_ticks, dc, cel_log, per_thread, scan_start>>

Next ==
    \/ \E op \in Opcodes : \E len_in \in LenIns(op) :
           \E pl \in Payloads(op, len_in, static_mem_size) :
               Dispatch(op, len_in, pl)
    \/ ReadResponse
    \/ Tick
    \/ \E d \in ClockSteps : AdvanceClock(d)

Spec == Init /\ [][Next]_vars

\* The main loop runs an expired timer's callback and virtual time advances.
FairSpec == Spec /\ WF_vars(Tick) /\ WF_vars(\E d \in ClockSteps : AdvanceClock(d))

(***************************************************************************)
(* The poison store of a memory device under the media commands alone,     *)
(* started from stores that hold many records.                             *)
(***************************************************************************)
\* The store after the Inject Poison commands number lo to hi, each applied
\* by the handler; command k poisons the line 2 * k lines after FillBase.
\* The count never passes the limit: the test on it makes the first half be
\* computed before the second is begun.
FillBase == 16 * CXL_CACHE_LINE_SIZE

RECURSIVE InjectMany(_, _, _)
InjectMany(s, lo, hi) ==
    IF lo > hi THEN s
    ELSE IF lo = hi
    THEN cmd_media_inject_poison(s, FillBase + lo * 2 * CXL_CACHE_LINE_SIZE).s
    ELSE LET mid == (lo + hi) \div 2
             s1 == InjectMany(s, lo, mid)
         IN IF s1.poison_list_cnt <= CXL_POISON_LIST_LIMIT
            THEN InjectMany(s1, mid + 1, hi)
            ELSE s1

\* The numbers of records injected before the run: none, one less than the
\* most a Get Poison List response has room for, one less than the limit.
FillCounts ==
    {0,
     (CXL_MAILBOX_MAX_PAYLOAD_SIZE - PoisonListHdrSize) \div PoisonListRecSize - 1,
     CXL_POISON_LIST_LIMIT - 1}

\* The ground-truth poison of the media: one record of four cache lines.
PoisonBkp ==
    <<CXLPoison(4 * CXL_CACHE_LINE_SIZE, 4 * CXL_CACHE_LINE_SIZE,
                CXL_POISON_TYPE_INTERNAL)>>

\* The device state of a freshly initialized memory device.
FreshDevState(bkp) ==
    [bg |-> IdleTracker, media_enabled |-> TRUE, poison_list |-> <<>>,
     poison_list_cnt |-> 0, poison_list_bkp |-> bkp,
     scan_media_results |-> <<>>, poison_list_overflowed |-> FALSE,
     scan_media_hasrun |-> FALSE, dc |-> NoDc]

PoisonInit ==
    /\ cxl_cmd_set = DOMAIN cxl_cmd_set_t3
    /\ cel_log = cxl_rebuild_cel(cxl_cmd_set)
    /\ per_thread = TestNotStarted
    /\ scan_start = NoScan
    /\ \E n \in FillCounts :
           LET s == InjectMany(FreshDevState(PoisonBkp), 1, n)
           IN /\ bg = s.bg
              /\ media_enabled = s.media_enabled
              /\ poison_list = s.poison_list
              /\ poison_list_cnt = s.poison_list_cnt
              /\ poison_list_bkp = s.poison_list_bkp
              /\ scan_media_results = s.scan_media_results
              /\ poison_list_overflowed = s.poison_list_overflowed
              /\ scan_media_hasrun = s.scan_media_hasrun
              /\ dc = s.dc
    /\ bg_timer = NoTimer
    /\ clock_ms = 0
    /\ static_mem_size \in StaticSizes
    /\ msi_count = 0
    /\ bg_ticks = 0
    /\ last = NoCommand("init")

\* The media commands sent.
PoisonOpcodes ==
    {OP_GET_POISON_LIST, OP_INJECT_POISON, OP_CLEAR_POISON, OP_SCAN_MEDIA}

\* Injected addresses: a cache line, an address in the middle of it, and a
\* line inside the ground-truth record.
InjectDPAs == {0, 32, 5 * CXL_CACHE_LINE_SIZE}

\* Cleared addresses: the first, an interior and the last line of the
\* ground-truth record, the last line of the device and the line after it.
ClearDPAs(mem_size) ==
    {4 * CXL_CACHE_LINE_SIZE, 5 * CXL_CACHE_LINE_SIZE, 7 * CXL_CACHE_LINE_SIZE,
     mem_size - CXL_CACHE_LINE_SIZE, mem_size}

\* Get Poison List queries <<start, cache lines>>: the whole device, the
\* second line, an empty range inside the ground-truth record, a misaligned
\* start.
ListQueries(mem_size) ==
    {<<0, mem_size \div CXL_CACHE_LINE_SIZE>>, <<64, 1>>,
     <<5 * CXL_CACHE_LINE_SIZE, 0>>, <<32, 1>>}

PoisonPayloads(op, mem_size) ==
    CASE op = OP_INJECT_POISON ->
             {Payload(a, 0, TRUE, "SUCCESS") : a \in InjectDPAs}
      [] op = OP_CLEAR_POISON ->
             {Payload(a, 0, TRUE, "SUCCESS") : a \in ClearDPAs(mem_size)}
             \cup {Payload(4 * CXL_CACHE_LINE_SIZE, 0, FALSE, "SUCCESS")}
      [] op = OP_GET_POISON_LIST ->
             {Payload(q[1], q[2], TRUE, "SUCCESS") : q \in ListQueries(mem_size)}
      [] op = OP_SCAN_MEDIA ->
             {Payload(0, 8, TRUE, "SUCCESS")}

PoisonNext ==
    \/ \E op \in PoisonOpcodes :
           \E pl \in PoisonPayloads(op, static_mem_size) :
               Dispatch(op, Descriptor(op).in, pl)
    \/ ReadResponse
    \/ Tick
    \/ \E d \in ClockSteps : AdvanceClock(d)

PoisonSpec == PoisonInit /\ [][PoisonNext]_vars

(***************************************************************************)
(* The scan media commands of a memory device, with a ground truth that    *)
(* holds more records than one Get Scan Media Results response.            *)
(***************************************************************************)
\* A ground truth of single-line records, four more than a response holds.
BigBkp ==
    [k \in 1..((CXL_MAILBOX_MAX_PAYLOAD_SIZE - ScanResultsHdrSize)
                   \div ScanResultsRecSize + 4) |->
        CXLPoison((256 + 2 * k) * CXL_CACHE_LINE_SIZE, CXL_CACHE_LINE_SIZE,
                  CXL_POISON_TYPE_EXTERNAL)]

\* Ground truth with the four-line record and a one-line record past the
\* first eight lines, on a line that no injected record of the runs holds.
MixedBkp ==
    PoisonBkp \o <<CXLPoison(9 * CXL_CACHE_LINE_SIZE, CXL_CACHE_LINE_SIZE,
                             CXL_POISON_TYPE_EXTERNAL)>>

ScanInit ==
    /\ cxl_cmd_set = DOMAIN cxl_cmd_set_t3
    /\ cel_log = cxl_rebuild_cel(cxl_cmd_set)
    /\ per_thread = TestNotStarted
    /\ scan_start = NoScan
    /\ \E n \in {0, CXL_POISON_LIST_LIMIT - 1} :
       \E bkp \in {PoisonBkp, BigBkp, MixedBkp} :
           LET s == InjectMany(FreshDevState(bkp), 1, n)
           IN /\ bg = s.bg
              /\ media_enabled = s.media_enabled
              /\ poison_list = s.poison_list
              /\ poison_list_cnt = s.poison_list_cnt
              /\ poison_list_bkp = s.poison_list_bkp
              /\ scan_media_results = s.scan_media_results
              /\ poison_list_overflowed = s.poison_list_overflowed
              /\ scan_media_hasrun = s.scan_media_hasrun
              /\ dc = s.dc
    /\ bg_timer = NoTimer
    /\ clock_ms = 0
    /\ static_mem_size \in StaticSizes
    /\ msi_count = 0
    /\ bg_ticks = 0
    /\ last = NoCommand("init")

ScanOpcodes ==
    {OP_GET_POISON_LIST, OP_INJECT_POISON, OP_CLEAR_POISON, OP_SCAN_MEDIA,
     OP_GET_SCAN_MEDIA_RESULTS, OP_SANITIZE_OVERWRITE}

\* The payloads of the scan runs: one injected line, clears of the first and
\* of an interior line of the four-line record, scans of the first 8 and of the first 1024 lines, a
\* poison list query of one line.
ScanPayloads(op) ==
    CASE op = OP_INJECT_POISON -> {Payload(0, 0, TRUE, "SUCCESS")}
      [] op = OP_CLEAR_POISON ->
             {Payload(n * CXL_CACHE_LINE_SIZE, 0, TRUE, "SUCCESS") : n \in {4, 5}}
      [] op = OP_GET_POISON_LIST -> {Payload(64, 1, TRUE, "SUCCESS")}
      [] op = OP_SCAN_MEDIA ->
             {Payload(0, n, TRUE, "SUCCESS") : n \in {8, 1024}}
      [] OTHER -> {Payload(0, 0, TRUE, "SUCCESS")}

ScanNext ==
    \/ \E op \in ScanOpcodes : \E pl \in ScanPayloads(op) :
           Dispatch(op, Descriptor(op).in, pl)
    \/ ReadResponse
    \/ Tick
    \/ \E d \in ClockSteps : AdvanceClock(d)

ScanSpec == ScanInit /\ [][ScanNext]_vars

(***************************************************************************)
(* The extent store of a memory device with two dynamic capacity regions   *)
(* under Add Dynamic Capacity Response and Release Dynamic Capacity.       *)
(***************************************************************************)
\* The finest block size of the layouts, and the length of a region.
DcBlock == 2 * MiB

DcRegionLen == 256 * MiB

\* The region tables: dynamic capacity that starts at address 0 with blocks
\* of 2 MiB and of 4 MiB, and dynamic capacity that follows the static
\* capacity with blocks of 2 MiB.
DcLayouts(mem_size) ==
    {DynCap(<<CXLDCDRegion(0, DcRegionLen, DcBlock),
              CXLDCDRegion(DcRegionLen, DcRegionLen, 2 * DcBlock)>>,
            2 * DcRegionLen),
     DynCap(<<CXLDCDRegion(mem_size, DcRegionLen, DcBlock),
              CXLDCDRegion(mem_size + DcRegionLen, DcRegionLen, DcBlock)>>,
            2 * DcRegionLen)}

\* cxl_initialize_mailbox_t3 of a device with dc.num_regions > 0.
DcdInit ==
    /\ cxl_cmd_set = DOMAIN cxl_cmd_set_t3 \cup DOMAIN cxl_cmd_set_dcd
    /\ cel_log = cxl_rebuild_cel(cxl_cmd_set)
    /\ per_thread = TestNotStarted
    /\ scan_start = NoScan
    /\ bg = IdleTracker
    /\ bg_timer = NoTimer
    /\ clock_ms = 0
    /\ media_enabled = TRUE
    /\ poison_list = <<>>
    /\ poison_list_cnt = 0
    /\ poison_list_bkp = BkpInit
    /\ scan_media_results = <<>>
    /\ poison_list_overflowed = FALSE
    /\ scan_media_hasrun = FALSE
    /\ static_mem_size \in StaticSizes
    /\ dc \in DcLayouts(static_mem_size)
    /\ msi_count = 0
    /\ bg_ticks = 0
    /\ last = NoCommand("init")

DcdOpcodes ==
    {OP_GET_DYN_CAP_EXT_LIST, OP_ADD_DYN_CAP_RSP, OP_RELEASE_DYN_CAP}

\* The entries tried, by their place around the start `mid' of the second
\* region: the last two blocks of the first region, two blocks across the
\* boundary, the first four blocks of the second region, each of the last
\* two blocks of the first region, the third and fourth block of the second
\* region, its second block, a range that starts in the middle of a block, an empty range and
\* a range past the dynamic capacity.
DcEntries(d) ==
    LET mid == d.regions[2].base
    IN [tail2 |-> UpdatedEntry(mid - 2 * DcBlock, 2 * DcBlock),
        cross |-> UpdatedEntry(mid - DcBlock, 2 * DcBlock),
        head4 |-> UpdatedEntry(mid, 4 * DcBlock),
        tailA |-> UpdatedEntry(mid - 2 * DcBlock, DcBlock),
        tailB |-> UpdatedEntry(mid - DcBlock, DcBlock),
        third |-> UpdatedEntry(mid + 2 * DcBlock, 2 * DcBlock),
        inner |-> UpdatedEntry(mid + DcBlock, DcBlock),
        odd   |-> UpdatedEntry(mid - 2 * DcBlock + 1, 2 * DcBlock),
        empty |-> UpdatedEntry(mid - 2 * DcBlock, 0),
        past  |-> UpdatedEntry(d.regions[1].base + d.total_capacity, DcBlock)]

\* The updated extent lists tried.
DcBatches(d) ==
    LET e == DcEntries(d)
    IN {<<>>, <<e.tail2>>, <<e.cross>>, <<e.head4>>, <<e.tailA>>, <<e.tailB>>,
        <<e.third>>, <<e.inner>>, <<e.odd>>, <<e.empty>>, <<e.past>>,
        <<e.tail2, e.head4>>, <<e.head4, e.tail2>>, <<e.tail2, e.cross>>,
        <<e.tail2, e.tail2>>, <<e.tailA, e.tailB>>, <<e.tail2, e.past>>,
        <<e.tail2, e.tailA>>, <<e.tailA, e.tail2>>, <<e.head4, e.tailA>>}

\* Extent list queries <<extent_cnt, start_extent_id>>: the first two
\* extents, one extent from the second on, everything from the first on.
ExtListQueries == {<<2, 0>>, <<1, 1>>, <<255, 0>>}

DcdPayloads(op, d) ==
    IF op = OP_GET_DYN_CAP_EXT_LIST
    THEN {ExtListQuery(q[1], q[2]) : q \in ExtListQueries}
    ELSE {ExtentListPayload(b, y) : b \in DcBatches(d), y \in BeyondBitmap}

\* The host sends extent lists and queries; no background operation is ever started, so
\* no timer is pending and the clock plays no part.
DcdNext ==
    \/ \E op \in DcdOpcodes : \E pl \in DcdPayloads(op, dc) :
           Dispatch(op, 8 + 24 * Len(pl.entries), pl)
    \/ ReadResponse

DcdSpec == DcdInit /\ [][DcdNext]_vars

(***************************************************************************)
(* The node-interleave test program test_policy_ctl.c: test_per_thread     *)
(* creates nthreads threads running thd_start and joins them.  The device  *)
(* is not exercised.                                                       *)
(***************************************************************************)
\* The numbers of threads tried (the program allows MAX_NUM_THREADS = 100).
MaxThreads == 3

\* pthread_join(test_threads[j], (void **)&status) stores the thread's
\* return value, a null pointer of 8 bytes, at the 4-byte int status: the
\* store also zeroes the 4 bytes after status, which a build may leave
\* unused or use for the loop variable i or for j.
AfterStatus == {"pad", "i", "j"}

\* A thread that has not yet run the first statement of thd_start.
NewThread == [pc |-> "start", thread_num |-> 0]

ThreadInit ==
    /\ per_thread \in {test_per_thread_Start(n, a) :
                           n \in 1..MaxThreads, a \in AfterStatus}
    /\ cxl_cmd_set = DOMAIN cxl_cmd_set_t3
    /\ cel_log = cxl_rebuild_cel(cxl_cmd_set)
    /\ scan_start = NoScan
    /\ bg = IdleTracker
    /\ bg_timer = NoTimer
    /\ clock_ms = 0
    /\ media_enabled = TRUE
    /\ poison_list = <<>>
    /\ poison_list_cnt = 0
    /\ poison_list_bkp = BkpInit
    /\ scan_media_results = <<>>
    /\ poison_list_overflowed = FALSE
    /\ scan_media_hasrun = FALSE
    /\ dc = NoDc
    /\ static_mem_size \in StaticSizes
    /\ msi_count = 0
    /\ bg_ticks = 0
    /\ last = NoCommand("init")

\* The test program does not touch the device.
DeviceIdle ==
    UNCHANGED <<cxl_cmd_set, bg, bg_timer, clock_ms, media_enabled,
                poison_list, poison_list_cnt, poison_list_bkp,
                scan_media_results, poison_list_overflowed,
                scan_media_hasrun, static_mem_size, msi_count, bg_ticks,
                last, dc, cel_log, scan_start>>

\* *(int *)arg as read by the k-th thread created: arg is &i, so the value
\* is what the loop variable of test_per_thread holds at the time of the
\* read.
ThreadArg(p, k) == p.i

\* line 63: pthread_create(&test_threads[i], NULL, thd_start, (void *)&i)
MainCreate ==
    /\ per_thread.pc = "create"
    /\ per_thread.i < per_thread.nthreads
    /\ per_thread' = [per_thread EXCEPT !.thd = Append(@, NewThread),
                                        !.pc = "sleep"]
    /\ DeviceIdle

\* lines 64-65 and the i++ of the loop
MainSleep ==
    /\ per_thread.pc = "sleep"
    /\ per_thread' = [per_thread EXCEPT !.i = @ + 1, !.pc = "create"]
    /\ DeviceIdle

\* The end of the first loop, and int j = nthreads - 1.
MainLoopEnd ==
    /\ per_thread.pc = "create"
    /\ per_thread.i >= per_thread.nthreads
    /\ per_thread' = [per_thread EXCEPT !.j = per_thread.nthreads - 1,
                                        !.pc = "join"]
    /\ DeviceIdle

\* lines 68-69: pthread_join returns once the thread has terminated; then
\* the j-- of the loop.
MainJoin ==
    /\ per_thread.pc = "join"
    /\ per_thread.j >= 0
    /\ per_thread.thd[per_thread.j + 1].pc = "done"
    /\ per_thread' =
           [per_thread EXCEPT
               !.i = IF per_thread.after = "i" THEN 0 ELSE @,
               !.j = (IF per_thread.after = "j" THEN 0 ELSE @) - 1]
    /\ DeviceIdle

\* The end of the second loop: test_per_thread returns.
MainReturn ==
    /\ per_thread.pc = "join"
    /\ per_thread.j < 0
    /\ per_thread' = [per_thread EXCEPT !.pc = "returned"]
    /\ DeviceIdle

\* line 37: int thread_num = (*(int *)arg) + 1.  Once test_per_thread has
\* returned, i is gone and the read yields any value.
ThreadStart(k) ==
    /\ per_thread.thd[k].pc = "start"
    /\ \E v \in IF per_thread.pc = "returned"
                THEN 0..MaxThreads
                ELSE {ThreadArg(per_thread, k)} :
           per_thread' = [per_thread EXCEPT !.thd[k].thread_num = v + 1,
                                            !.thd[k].pc = "interleave"]
    /\ DeviceIdle

\* lines 38-45: the allocations under s_enable_node_interleave
ThreadInterleave(k) ==
    /\ per_thread.thd[k].pc = "interleave"
    /\ per_thread' = [per_thread EXCEPT !.thd[k].pc = "plain"]
    /\ DeviceIdle

\* lines 47-54: the allocations after s_disable_node_interleave, return NULL
ThreadPlain(k) ==
    /\ per_thread.thd[k].pc = "plain"
    /\ per_thread' = [per_thread EXCEPT !.thd[k].pc = "done"]
    /\ DeviceIdle

ThreadNext ==
    \/ MainCreate
    \/ MainSleep
    \/ MainLoopEnd
    \/ MainJoin
    \/ MainReturn
    \/ \E k \in 1..Len(per_thread.thd) :
           \/ ThreadStart(k)
           \/ ThreadInterleave(k)
           \/ ThreadPlain(k)

ThreadSpec == ThreadInit /\ [][ThreadNext]_vars

(***************************************************************************)
(* Merging command tables into a context: a context initialised by         *)
(* cxl_initialize_mailbox_t3 (with and without dynamic capacity regions),  *)
(* cxl_initialize_mailbox_swcci or cxl_initialize_t3_mctpcci, to which     *)
(* cxl_add_cci_commands adds further tables while the host sends commands. *)
(***************************************************************************)
\* cxl_initialize_t3_mctpcci
MctpInit ==
    /\ cxl_cmd_set = DOMAIN cxl_cmd_set_t3_mctp
    /\ cel_log = cxl_rebuild_cel(cxl_cmd_set)
    /\ per_thread = TestNotStarted
    /\ scan_start = NoScan
    /\ bg = IdleTracker
    /\ bg_timer = NoTimer
    /\ clock_ms = 0
    /\ media_enabled = TRUE
    /\ poison_list = <<>>
    /\ poison_list_cnt = 0
    /\ poison_list_bkp = BkpInit
    /\ scan_media_results = <<>>
    /\ poison_list_overflowed = FALSE
    /\ scan_media_hasrun = FALSE
    /\ dc = NoDc
    /\ static_mem_size \in StaticSizes
    /\ msi_count = 0
    /\ bg_ticks = 0
    /\ last = NoCommand("init")

CelInit == Init \/ DcdInit \/ MctpInit

\* The tables a caller merges.
MergedTables ==
    {cxl_cmd_set_t3, cxl_cmd_set_sw, cxl_cmd_set_t3_mctp, cxl_cmd_set_dcd}

\* A caller adds the commands of one more table to the context.
AddCommands(cmds) ==
    LET r == cxl_add_cci_commands(cxl_cmd_set, cel_log, cmds)
    IN /\ Alive
       /\ cxl_cmd_set' = r.table
       /\ cel_log' = r.cel
       /\ last' = NoCommand("add_commands")
       /\ UNCHANGED <<bg, bg_timer, clock_ms, media_enabled, poison_list,
                      poison_list_cnt, poison_list_bkp, scan_media_results,
                      poison_list_overflowed, scan_media_hasrun,
                      static_mem_size, msi_count, bg_ticks, dc, per_thread,
                      scan_start>>

\* The commands the host sends meanwhile: the log queries and Identify.
CelOpcodes ==
    {Opcode(LOGS, 0), Opcode(LOGS, 1), OP_INFOSTAT_IDENTIFY, OP_UNKNOWN}

CelNext ==
    \/ \E cmds \in MergedTables : AddCommands(cmds)
    \/ \E op \in CelOpcodes : \E len_in \in LenIns(op) :
           \E pl \in Payloads(op, len_in, static_mem_size) :
               Dispatch(op, len_in, pl)
    \/ ReadResponse

CelSpec == CelInit /\ [][CelNext]_vars

(***************************************************************************)
(* Vocabulary of the properties.                                           *)
(***************************************************************************)
\* The tracker is RUNNING / IDLE.
Running(b) == b.runtime > 0

\* This step is the processing of one command; last' describes it.
IsDispatchStep == last.kind # "dispatch" /\ last'.kind = "dispatch"

\* This step is one run of bg_timercb.
IsTickStep == last'.kind = "tick"

\* The command of l is registered in the context and has a length its
\* descriptor accepts: it passes the dispatcher's first two checks.
WellFormed(l) ==
    /\ l.op \in cxl_cmd_set
    /\ (Descriptor(l.op).in = LenAny \/ l.len_in = Descriptor(l.op).in)

\* The tracker, the timer, the media state, the poison lists and the dynamic
\* capacity keep their values.
DeviceUnchanged ==
    UNCHANGED <<bg, bg_timer, media_enabled, poison_list, poison_list_cnt,
                poison_list_bkp, scan_media_results, poison_list_overflowed,
                scan_media_hasrun, msi_count, dc>>

\* ceil(a / b)
CeilDiv(a, b) == (a + b - 1) \div b

(***************************************************************************)
(* C1: at most one background operation per context.  A well-formed        *)
(* sanitize/overwrite or scan media command dispatched while the tracker   *)
(* is RUNNING returns BUSY, its handler is not invoked, and the tracker    *)
(* (opcode, start time, duration, progress), the poison lists and the      *)
(* media state are unchanged.  (A command with a wrong payload length is   *)
(* rejected before the tracker is looked at.)                              *)
(***************************************************************************)
C1_BusyWhileRunning ==
    [][(/\ IsDispatchStep
        /\ last'.op \in {OP_SANITIZE_OVERWRITE, OP_SCAN_MEDIA}
        /\ WellFormed(last')
        /\ Running(bg))
       => (/\ last'.ret = "BUSY"
           /\ ~last'.invoked
           /\ ~last'.bg_started
           /\ DeviceUnchanged)]_vars

\* A scan media was answered BUSY while a sanitize was running.
C1_Witness ==
    /\ last.kind = "dispatch"
    /\ last.op = OP_SCAN_MEDIA
    /\ last.ret = "BUSY"
    /\ Running(bg)
    /\ bg.opcode = OP_SANITIZE_OVERWRITE

(***************************************************************************)
(* C2: while a sanitize is running, a well-formed command of the gated     *)
(* list (event-log read, partition info, LSA read, LSA write, poison list, *)
(* poison inject, poison clear, log read) is answered MEDIA_DISABLED, its  *)
(* handler does not run and nothing changes; every other registered        *)
(* command that is not background-capable reaches its handler and is       *)
(* answered by it in the same step, and the tracker is left alone.         *)
(***************************************************************************)
C2_GatedList ==
    {"cmd_events_get_records", "cmd_ccls_get_partition_info",
     "cmd_ccls_get_lsa", "cmd_ccls_set_lsa", "cmd_media_get_poison_list",
     "cmd_media_inject_poison", "cmd_media_clear_poison", "cmd_logs_get_log"}

C2_GatedWhileSanitizing ==
    [][(/\ IsDispatchStep
        /\ WellFormed(last')
        /\ ~IsBackgroundCapable(Descriptor(last'.op))
        /\ Running(bg)
        /\ bg.opcode = OP_SANITIZE_OVERWRITE)
       => IF Descriptor(last'.op).handler \in C2_GatedList
          THEN /\ last'.ret = "MEDIA_DISABLED"
               /\ ~last'.invoked
               /\ DeviceUnchanged
          ELSE /\ last'.invoked
               /\ last'.ret \notin {"MEDIA_DISABLED", "BUSY", "BG_STARTED"}
               /\ bg' = bg
               /\ bg_timer' = bg_timer]_vars

C2_Witness ==
    /\ last.kind = "dispatch"
    /\ last.op = OP_INJECT_POISON
    /\ last.ret = "MEDIA_DISABLED"
    /\ ~media_enabled
    /\ Running(bg)
    /\ bg.opcode = OP_SANITIZE_OVERWRITE
    /\ bg_ticks >= 1

(***************************************************************************)
(* C3: when the expired timer's callback is run and time advances, every   *)
(* background operation whose dispatch reported BACKGROUND_STARTED is      *)
(* finalized: the tracker reaches progress 100 and is IDLE again.  Nothing *)
(* cancels it: a RUNNING tracker keeps its opcode, start time and duration *)
(* and its timer stays armed through every command, and it only becomes    *)
(* IDLE in a run of the timer callback that stores progress 100.           *)
(***************************************************************************)
C3_StartedEventuallyFinalizes ==
    /\ (last.kind = "dispatch" /\ last.bg_started)
           ~> (~Running(bg) /\ bg.complete_pct = 100 /\ bg_timer = NoTimer)
    /\ [][Running(bg)
          => IF IsTickStep
             THEN Running(bg') \/ bg'.complete_pct = 100
             ELSE /\ bg'.opcode = bg.opcode
                  /\ bg'.starttime = bg.starttime
                  /\ bg'.runtime = bg.runtime
                  /\ bg_timer' = bg_timer
                  /\ bg_timer # NoTimer]_vars

C3_Witness ==
    /\ last.kind = "tick"
    /\ ~Running(bg)
    /\ bg.complete_pct = 100
    /\ bg.opcode = OP_SCAN_MEDIA
    /\ bg_ticks = 5
    /\ scan_media_hasrun

C5_FinalizesAtCeilTick ==
    [][(/\ IsTickStep
        /\ Running(bg)
        /\ clock_ms = bg.starttime + (bg_ticks + 1) * CXL_MBOX_BG_UPDATE_FREQ)
       => LET k == bg_ticks + 1
              n == CeilDiv(bg.runtime, CXL_MBOX_BG_UPDATE_FREQ)
          IN /\ k <= n
             /\ k = n => /\ bg'.complete_pct = 100
                         /\ ~Running(bg')
                         /\ bg_timer' = NoTimer
                         /\ \A op \in {OP_SANITIZE_OVERWRITE, OP_SCAN_MEDIA} :
                                ~BgBusy(Descriptor(op), bg')
             /\ k < n => /\ Running(bg')
                         /\ bg'.complete_pct < 100
                         /\ bg_timer' = clock_ms + CXL_MBOX_BG_UPDATE_FREQ]_vars

C5_Witness ==
    /\ last.kind = "tick"
    /\ bg_ticks = 4
    /\ clock_ms = 4500
    /\ bg.opcode = OP_SANITIZE_OVERWRITE
    /\ bg.complete_pct = 100
    /\ ~Running(bg)

(***************************************************************************)
(* C6 as stated: while an operation is RUNNING every progress value a      *)
(* query can see is strictly greater than 0 and strictly less than 100.    *)
(***************************************************************************)
C6_ProgressStrictlyInside ==
    Running(bg) => (0 < bg.complete_pct /\ bg.complete_pct < 100)

(***************************************************************************)
(* C6: while an operation is RUNNING its progress never decreases and      *)
(* every value is at least 0 and strictly less than 100; it is 0 from the  *)
(* start until a tick stores a larger estimate.                            *)
(***************************************************************************)
C6_ProgressMonotoneBelow100 ==
    /\ [](Running(bg) => (0 <= bg.complete_pct /\ bg.complete_pct < 100))
    /\ [][(Running(bg) /\ Running(bg'))
          => bg'.complete_pct >= bg.complete_pct]_vars
    /\ [][(IsDispatchStep /\ last'.bg_started) => bg'.complete_pct = 0]_vars

C6_Witness ==
    /\ Running(bg)
    /\ bg.complete_pct = 75
    /\ bg_ticks = 3
    /\ last.kind = "dispatch"
    /\ last.invoked

(***************************************************************************)
(* C7: at every non-finalizing tick of an operation with start time S and  *)
(* duration T the stored progress is floor(100 * (now - S) / T), whatever  *)
(* the start time.                                                         *)
(***************************************************************************)
C7_ProgressIsElapsedShare ==
    [][(IsTickStep /\ Running(bg) /\ Running(bg'))
       => bg'.complete_pct = (100 * (clock_ms - bg.starttime)) \div bg.runtime]_vars

(***************************************************************************)
(* C8: the completion notification is raised exactly once for each         *)
(* transition RUNNING -> IDLE and by no other step: not by a tick that     *)
(* leaves the tracker RUNNING, not by any command.                         *)
(***************************************************************************)
C8_NotifyOncePerCompletion ==
    [][msi_count' = msi_count + (IF Running(bg) /\ ~Running(bg') THEN 1 ELSE 0)]_vars

C8_Witness ==
    /\ msi_count = 2
    /\ last.kind = "tick"
    /\ ~Running(bg)
    /\ bg_timer = NoTimer

(***************************************************************************)
(* C9: the media is disabled exactly in the states where a sanitize is     *)
(* running: from the dispatch that starts it, through every command and    *)
(* every tick that leaves it running, until the tick that finalizes it.    *)
(***************************************************************************)
C9_MediaDisabledIffSanitizing ==
    ~media_enabled <=> (Running(bg) /\ bg.opcode = OP_SANITIZE_OVERWRITE)

C9_Witness ==
    /\ ~media_enabled
    /\ bg_ticks = 3
    /\ last.kind = "dispatch"
    /\ last.op = OP_GET_SCAN_MEDIA_RESULTS
    /\ last.invoked

(***************************************************************************)
(* C10 as stated: a background-capable handler (sanitize/overwrite, scan   *)
(* media) that accepts a request whose computed duration is at most 2      *)
(* seconds answers SUCCESS and leaves the tracker IDLE; it answers         *)
(* BACKGROUND_STARTED only for a longer duration.                          *)
(***************************************************************************)
C10_ShortRunsImmediately ==
    [][(/\ IsDispatchStep
        /\ last'.invoked
        /\ last'.op \in {OP_SANITIZE_OVERWRITE, OP_SCAN_MEDIA}
        /\ last'.ret \in {"SUCCESS", "BG_STARTED"})
       => IF bg'.runtime <= 2 * 1000
          THEN last'.ret = "SUCCESS" /\ ~Running(bg')
          ELSE last'.ret = "BG_STARTED"]_vars

(***************************************************************************)
(* C10: sanitize/overwrite answers BACKGROUND_STARTED with the duration of *)
(* its table, which always exceeds 2 seconds, so its immediate branch is   *)
(* never taken.  Scan media has no immediate branch: every request it      *)
(* accepts is answered BACKGROUND_STARTED with a duration of at least 1 ms *)
(* and a request it rejects changes nothing.  In both cases the tracker is *)
(* RUNNING afterwards with a timer one update interval ahead.              *)
(***************************************************************************)
\* Total capacities in MiB around every step of the sanitize runtime table.
C10_TableEdges ==
    {0, 1} \cup UNION {{512 * k, 512 * k + 1} : k \in {1, 2, 4, 8, 16, 32, 64,
                                                     128, 256, 512, 1024, 2048}}

C10_BackgroundAlwaysStarted ==
    [][(/\ IsDispatchStep
        /\ last'.invoked
        /\ last'.op \in {OP_SANITIZE_OVERWRITE, OP_SCAN_MEDIA})
       => IF last'.op = OP_SCAN_MEDIA /\ last'.ret # "BG_STARTED"
          THEN /\ last'.ret \in {"INVALID_INPUT", "INVALID_PA"}
               /\ DeviceUnchanged
          ELSE /\ last'.ret = "BG_STARTED"
               /\ last'.bg_started
               /\ bg'.opcode = last'.op
               /\ bg'.starttime = clock_ms
               /\ bg_timer' = clock_ms + CXL_MBOX_BG_UPDATE_FREQ
               /\ IF last'.op = OP_SANITIZE_OVERWRITE
                  THEN /\ bg'.runtime
                              = 1000 * SanitizeSecs(static_mem_size \div MiB)
                       /\ bg'.runtime > 2 * 1000
                       /\ \A m \in C10_TableEdges : SanitizeSecs(m) >= 4
                  ELSE bg'.runtime
                           = MAX(1, (last'.pl.nlines * CXL_CACHE_LINE_SIZE)
                                        \div 128000)]_vars

C10_Witness ==
    /\ last.kind = "dispatch"
    /\ last.op = OP_SCAN_MEDIA
    /\ last.ret = "BG_STARTED"
    /\ bg.runtime = 1
    /\ bg.complete_pct = 0
    /\ bg_timer = clock_ms + CXL_MBOX_BG_UPDATE_FREQ

(***************************************************************************)
(* C11: a command whose (set, code) has no handler in the context's table  *)
(* is answered UNSUPPORTED with an empty output, no handler runs and the   *)
(* tracker, the timer, the media state and the poison lists are unchanged; *)
(* this also holds for a message tunnelled to a memory device: when that   *)
(* device's interface does not know the embedded command, the tunnel       *)
(* response carries UNSUPPORTED and an embedded output length of zero.     *)
(***************************************************************************)
C11_UnsupportedIsEmpty ==
    [][IsDispatchStep =>
          /\ (last'.op \notin cxl_cmd_set) =>
                 (/\ last'.ret = "UNSUPPORTED"
                  /\ ~last'.invoked
                  /\ last'.out = <<>>
                  /\ DeviceUnchanged)
          /\ (/\ last'.op = OP_TUNNEL_MANAGEMENT
              /\ last'.ret = "SUCCESS"
              /\ last'.pl.tunnel.op \notin DOMAIN cxl_cmd_set_t3_mctp) =>
                 (/\ last'.out.rc = "UNSUPPORTED"
                  /\ last'.out.pl_length = 0
                  /\ last'.out.resp_len = CCIMessageSize
                  /\ last'.out.len_out = TunnelOutSize)]_vars

(***************************************************************************)
(* C12: a registered command whose descriptor requires the input length L  *)
(* and that is sent with another length is answered INVALID_PAYLOAD_LENGTH *)
(* in every state, a running background operation or sanitize included:    *)
(* its handler does not run and nothing changes.  A command registered     *)
(* with a variable length gets this status only from its handler.  The     *)
(* same holds of the message embedded in a tunnel request.                 *)
(***************************************************************************)
C12_LengthChecked ==
    [][(IsDispatchStep /\ last'.op \in cxl_cmd_set) =>
          LET d == Descriptor(last'.op)
              t == last'.pl.tunnel
          IN /\ (d.in # LenAny /\ last'.len_in # d.in) =>
                    (/\ last'.ret = "INVALID_PAYLOAD_LENGTH"
                     /\ ~last'.invoked
                     /\ ~last'.bg_started
                     /\ last'.out = <<>>
                     /\ DeviceUnchanged)
             /\ (d.in = LenAny /\ last'.ret = "INVALID_PAYLOAD_LENGTH") =>
                    last'.invoked
             /\ (/\ last'.op = OP_TUNNEL_MANAGEMENT
                 /\ last'.ret = "SUCCESS"
                 /\ t.op \in DOMAIN cxl_cmd_set_t3_mctp) =>
                    (last'.out.rc = "INVALID_PAYLOAD_LENGTH"
                         <=> t.pl_length # cxl_cmd_set_t3_mctp[t.op].in)]_vars

\* A poison command of the wrong length was rejected for its length, not for
\* the disabled media, while a sanitize was running.
C12_Witness ==
    /\ last.kind = "dispatch"
    /\ last.op = OP_INJECT_POISON
    /\ last.ret = "INVALID_PAYLOAD_LENGTH"
    /\ ~last.invoked
    /\ Running(bg)
    /\ bg.opcode = OP_SANITIZE_OVERWRITE
    /\ ~media_enabled

(***************************************************************************)
(* Vocabulary of the poison store properties.                              *)
(***************************************************************************)
\* The records r and q cover a common address.
RecordsOverlap(r, q) ==
    r.start < q.start + q.length /\ q.start < r.start + r.length

\* The cache line at address a lies inside the record r.
LineInside(r, a) == r.start <= a /\ a + CXL_CACHE_LINE_SIZE <= r.start + r.length

\* Some live record already holds the cache line at a.
AlreadyPoisoned(a) ==
    \E i \in 1..Len(poison_list) : LineInside(poison_list[i], a)

\* The start addresses of the cache lines of the record r.
Lines(r) ==
    {r.start + n * CXL_CACHE_LINE_SIZE :
         n \in 0..((r.length \div CXL_CACHE_LINE_SIZE) - 1)}

\* This step processes the command op in full: it passes the dispatcher's
\* checks and its handler runs.
Handled(op) == IsDispatchStep /\ last'.op = op /\ last'.invoked

(***************************************************************************)
(* C13: after any sequence of inject, clear, scan media and tick, no two   *)
(* records of the live poison list cover a common address, whatever the    *)
(* injected addresses and the records a scan moves in from the ground      *)
(* truth.                                                                  *)
(***************************************************************************)
C13_NoOverlap ==
    \A i, j \in 1..Len(poison_list) :
        i < j => ~RecordsOverlap(poison_list[i], poison_list[j])

(***************************************************************************)
(* C14: the live count equals the number of records in the live list and   *)
(* never exceeds 256; an inject of a line no record holds, made with 256   *)
(* live records and no scan running, is answered INJECT_POISON_LIMIT and   *)
(* changes nothing.                                                        *)
(***************************************************************************)
C14_CountBounded ==
    /\ [](/\ poison_list_cnt = Len(poison_list)
          /\ poison_list_cnt <= 256)
    /\ [][(/\ Handled(OP_INJECT_POISON)
           /\ ~AlreadyPoisoned(last'.pl.dpa)
           /\ poison_list_cnt = 256
           /\ ~(Running(bg) /\ bg.opcode = OP_SCAN_MEDIA))
          => (/\ last'.ret = "INJECT_POISON_LIMIT"
              /\ DeviceUnchanged)]_vars

\* An inject was refused for the limit with 256 records stored.
C14_Witness ==
    /\ last.kind = "dispatch"
    /\ last.op = OP_INJECT_POISON
    /\ last.ret = "INJECT_POISON_LIMIT"
    /\ poison_list_cnt = 256
    /\ Len(poison_list) = 256
    /\ ~Running(bg)

(***************************************************************************)
(* C15: for every reachable poison store and every query with a 64-byte    *)
(* aligned start, Get Poison List answers and its response is no longer    *)
(* than the largest mailbox payload: the handler's size assertion holds.   *)
(***************************************************************************)
C15_ListResponseFits ==
    (/\ last.kind = "dispatch"
     /\ last.op = OP_GET_POISON_LIST
     /\ last.invoked
     /\ last.pl.dpa % 64 = 0)
    => (/\ last.ret = "SUCCESS"
        /\ last.out.len_out <= 2048)

(***************************************************************************)
(* C16: for a 64-byte aligned start, Get Poison List returns one entry for *)
(* each live record that intersects [start, start + length), in list       *)
(* order, and none for any other record; each entry is the intersection of *)
(* its record with the range: an aligned start address with the kind in    *)
(* the low 3 bits and a count of at least one cache line; nothing changes. *)
(***************************************************************************)
C16_ListIsIntersection ==
    [][(Handled(OP_GET_POISON_LIST) /\ last'.pl.dpa % 64 = 0) =>
          LET qs == last'.pl.dpa
              qe == qs + last'.pl.nlines * 64
              lo(r) == IF r.start > qs THEN r.start ELSE qs
              hi(r) == IF r.start + r.length < qe THEN r.start + r.length ELSE qe
              hit == SelectSeq(poison_list, LAMBDA r : lo(r) < hi(r))
          IN /\ last'.ret = "SUCCESS"
             /\ DeviceUnchanged
             /\ last'.out.count = Len(hit)
             /\ Len(last'.out.records) = Len(hit)
             /\ \A i \in 1..Len(hit) :
                    LET e == last'.out.records[i] IN
                    /\ e.addr % 8 = hit[i].type
                    /\ e.addr - (e.addr % 8) = lo(hit[i])
                    /\ (e.addr - (e.addr % 8)) % 64 = 0
                    /\ e.length >= 1
                    /\ e.length * 64 = hi(hit[i]) - lo(hit[i])]_vars

(***************************************************************************)
(* C17: an inject of a line some live record already holds is answered     *)
(* SUCCESS and changes nothing; in every state a second inject of the same *)
(* address leaves the store the first one produced and gets the same       *)
(* answer.                                                                 *)
(***************************************************************************)
C17_InjectIdempotent ==
    /\ [][(Handled(OP_INJECT_POISON) /\ AlreadyPoisoned(last'.pl.dpa))
          => (last'.ret = "SUCCESS" /\ DeviceUnchanged)]_vars
    /\ [](\A a \in InjectDPAs :
              LET once == cmd_media_inject_poison(DevState, a)
                  twice == cmd_media_inject_poison(once.s, a)
              IN twice.s = once.s /\ twice.ret = once.ret)

\* An inject into the middle of the four-line record a scan had moved in was
\* answered SUCCESS and added no record.
C17_Witness ==
    /\ last.kind = "dispatch"
    /\ last.op = OP_INJECT_POISON
    /\ last.pl.dpa = 320
    /\ last.ret = "SUCCESS"
    /\ ~Running(bg)
    /\ \E i \in 1..Len(poison_list) :
           poison_list[i] = CXLPoison(256, 256, CXL_POISON_TYPE_INTERNAL)
    /\ \A i \in 1..Len(poison_list) : poison_list[i].start # 320

(***************************************************************************)
(* C18 as stated: while a scan media is running, inject and clear are      *)
(* answered SUCCESS for every address and leave the live list, its count   *)
(* and the overflow flag as they were.                                     *)
(***************************************************************************)
C18_FrozenAlwaysSuccess ==
    [][(/\ Handled(OP_INJECT_POISON) \/ Handled(OP_CLEAR_POISON)
        /\ Running(bg)
        /\ bg.opcode = OP_SCAN_MEDIA)
       => (/\ last'.ret = "SUCCESS"
           /\ UNCHANGED <<poison_list, poison_list_cnt,
                          poison_list_overflowed>>)]_vars

(***************************************************************************)
(* C18, amended: while a scan media is running, inject is answered SUCCESS *)
(* for every address, and clear is answered SUCCESS unless its address     *)
(* check refuses the address (INVALID_PA) or the write of the line fails   *)
(* (INTERNAL_ERROR), as when no scan is running; in every case the live    *)
(* list, its count and the overflow flag stay as they were, also with 256  *)
(* records in the list.                                                    *)
(***************************************************************************)
C18_FrozenList ==
    [][(/\ Handled(OP_INJECT_POISON) \/ Handled(OP_CLEAR_POISON)
        /\ Running(bg)
        /\ bg.opcode = OP_SCAN_MEDIA)
       => (/\ UNCHANGED <<poison_list, poison_list_cnt,
                          poison_list_overflowed>>
           /\ last'.op = OP_INJECT_POISON => last'.ret = "SUCCESS"
           /\ last'.op = OP_CLEAR_POISON =>
                  last'.ret =
                      IF last'.pl.dpa + 64 >= static_mem_size THEN "INVALID_PA"
                      ELSE IF ~last'.pl.ok THEN "INTERNAL_ERROR"
                      ELSE "SUCCESS")]_vars

\* With a scan running and 256 records in the list, an inject of a line that
\* no record holds was answered SUCCESS.
C18_Witness ==
    /\ last.kind = "dispatch"
    /\ last.op = OP_INJECT_POISON
    /\ last.pl.dpa = 0
    /\ last.ret = "SUCCESS"
    /\ Running(bg)
    /\ bg.opcode = OP_SCAN_MEDIA
    /\ poison_list_cnt = 256
    /\ ~AlreadyPoisoned(0)

(***************************************************************************)
(* C19: clear is answered INVALID_PA exactly when the cache line           *)
(* [dpa, dpa + 64) does not lie inside the capacity of the device (no      *)
(* dynamic capacity regions); every line inside it, the last one included, *)
(* is accepted.                                                            *)
(***************************************************************************)
C19_ClearAddressCheck ==
    (/\ last.kind = "dispatch"
     /\ last.op = OP_CLEAR_POISON
     /\ last.invoked)
    => (last.ret = "INVALID_PA" <=> last.pl.dpa + 64 > static_mem_size)

(***************************************************************************)
(* C20: the records a clear puts in place of the record it hits.           *)
(***************************************************************************)
\* The position of the record a clear at address a hits: the first one in
\* list order that contains a; 0 if there is none.
C20_Hit(a) ==
    LET in(r) == r.start <= a /\ a < r.start + r.length
        is == {i \in 1..Len(poison_list) : in(poison_list[i])}
    IN IF is = {} THEN 0 ELSE CHOOSE i \in is : \A j \in is : i <= j

\* This step is a clear, with no scan running, of a cache line of a record
\* longer than one cache line.
C20_ClearsLineOfLongRecord ==
    /\ Handled(OP_CLEAR_POISON)
    /\ last'.ret = "SUCCESS"
    /\ ~(Running(bg) /\ bg.opcode = OP_SCAN_MEDIA)
    /\ C20_Hit(last'.pl.dpa) # 0
    /\ poison_list[C20_Hit(last'.pl.dpa)].length > 64
    /\ (last'.pl.dpa - poison_list[C20_Hit(last'.pl.dpa)].start) % 64 = 0

\* The step replaces the hit record by n fragments at the head of the list:
\* they have the kind of the record and, with the lines in gone, their cache
\* lines are those of the record, each once.
C20_Replaced(n, gone) ==
    LET a == last'.pl.dpa
        i == C20_Hit(a)
        R == poison_list[i]
        rest == [k \in 1..(Len(poison_list) - 1) |->
                     IF k < i THEN poison_list[k] ELSE poison_list[k + 1]]
        frags == SubSeq(poison_list', 1, n)
    IN /\ Len(poison_list') = Len(rest) + n
       /\ SubSeq(poison_list', n + 1, Len(poison_list')) = rest
       /\ \A k \in 1..n : frags[k].type = R.type /\ frags[k].length >= 64
       /\ UNION {Lines(frags[k]) : k \in 1..n} \cup gone = Lines(R)
       /\ \A k \in 1..n : Lines(frags[k]) \cap gone = {}
       /\ \A k, m \in 1..n : k # m => Lines(frags[k]) \cap Lines(frags[m]) = {}

\* C20 as stated: one fragment for the first or the last line, two for an
\* interior line; the fragments and the cleared line make up the record, in
\* every reachable state.
C20_FragmentsCoverRecord ==
    [][C20_ClearsLineOfLongRecord =>
          LET a == last'.pl.dpa
              R == poison_list[C20_Hit(a)]
              edge == a = R.start \/ a + 64 = R.start + R.length
          IN C20_Replaced(IF edge THEN 1 ELSE 2, {a})]_vars

\* C20, amended: as stated, except that a clear of an interior line made
\* with 256 records in the list leaves the head fragment only: the part of
\* the record after the cleared line is dropped from the list and the
\* overflow flag is set.  In every other case the flag keeps its value.
C20_FragmentsUnlessFull ==
    [][C20_ClearsLineOfLongRecord =>
          LET a == last'.pl.dpa
              R == poison_list[C20_Hit(a)]
              edge == a = R.start \/ a + 64 = R.start + R.length
              full == ~edge /\ poison_list_cnt = 256
          IN IF full
             THEN /\ C20_Replaced(1, {l \in Lines(R) : l >= a})
                  /\ poison_list_overflowed'
                  /\ poison_list_cnt' = 256
             ELSE /\ C20_Replaced(IF edge THEN 1 ELSE 2, {a})
                  /\ UNCHANGED poison_list_overflowed]_vars

\* An interior line of the four-line record was cleared with 256 records in
\* the list: the head fragment is there, the tail is not, the flag is set.
C20_Witness ==
    /\ last.kind = "dispatch"
    /\ last.op = OP_CLEAR_POISON
    /\ last.pl.dpa = 320
    /\ last.ret = "SUCCESS"
    /\ poison_list_cnt = 256
    /\ poison_list_overflowed
    /\ poison_list[1] = CXLPoison(256, 64, CXL_POISON_TYPE_INTERNAL)
    /\ \A i \in 1..Len(poison_list) : poison_list[i].start # 384

(***************************************************************************)
(* C21 as stated: from every reachable state with no scan running, an      *)
(* inject at an address that both commands accept, followed by a clear at  *)
(* the same address, leaves the live count at its value before the inject  *)
(* and leaves no record that was not stored before.                        *)
(***************************************************************************)
C21_InjectThenClear ==
    [][(/\ Handled(OP_INJECT_POISON)
        /\ last'.ret = "SUCCESS"
        /\ ~(Running(bg) /\ bg.opcode = OP_SCAN_MEDIA))
       => LET a == last'.pl.dpa
              c == cmd_media_clear_poison(DevState', static_mem_size, a, TRUE)
          IN c.ret = "SUCCESS" =>
                 /\ c.s.poison_list_cnt = poison_list_cnt
                 /\ \A k \in 1..Len(c.s.poison_list) :
                        \E i \in 1..Len(poison_list) :
                            c.s.poison_list[k] = poison_list[i]]_vars

(***************************************************************************)
(* C21, amended: the same for an address whose cache line no live record   *)
(* holds before the inject; the live list after the clear is then the list *)
(* before the inject, record by record.  (When a record already holds the  *)
(* line, the inject adds nothing and the clear removes or splits that      *)
(* record.)                                                                *)
(***************************************************************************)
C21_InjectThenClearFresh ==
    [][(/\ Handled(OP_INJECT_POISON)
        /\ last'.ret = "SUCCESS"
        /\ ~(Running(bg) /\ bg.opcode = OP_SCAN_MEDIA)
        /\ ~AlreadyPoisoned(last'.pl.dpa))
       => LET a == last'.pl.dpa
              c == cmd_media_clear_poison(DevState', static_mem_size, a, TRUE)
          IN c.ret = "SUCCESS" =>
                 /\ c.s.poison_list_cnt = poison_list_cnt
                 /\ c.s.poison_list = poison_list
                 /\ c.s.poison_list_overflowed = poison_list_overflowed]_vars

\* An inject has just added a record for a line in the middle of another
\* record's line, with no scan running.
C21_Witness ==
    /\ last.kind = "dispatch"
    /\ last.op = OP_INJECT_POISON
    /\ last.pl.dpa = 32
    /\ last.ret = "SUCCESS"
    /\ ~Running(bg)
    /\ Len(poison_list) >= 2
    /\ poison_list[1] = CXLPoison(32, 64, CXL_POISON_TYPE_INJECTED)
    /\ \E i \in 2..Len(poison_list) :
           poison_list[i] = CXLPoison(0, 64, CXL_POISON_TYPE_INJECTED)

(***************************************************************************)
(* Vocabulary of the scan media properties.                                *)
(***************************************************************************)
\* This step is the run of bg_timercb that finalizes a scan media.
ScanFinalizes ==
    /\ IsTickStep
    /\ Running(bg)
    /\ bg.opcode = OP_SCAN_MEDIA
    /\ ~Running(bg')

\* The sequence s in reverse order.
Reverse(s) == [i \in 1..Len(s) |-> s[Len(s) + 1 - i]]

(***************************************************************************)
(* C22: the poison overflow flag is sticky.  Once set it stays set through *)
(* every inject, clear, poison list query, scan results query, sanitize,   *)
(* start of a scan and tick that does not finalize a scan; the only step   *)
(* that clears it is the tick that finalizes a scan media.                 *)
(***************************************************************************)
C22_OverflowSticky ==
    [][(poison_list_overflowed /\ ~poison_list_overflowed') => ScanFinalizes]_vars

\* The flag is set and a sanitize has just been started over it.
C22_Witness ==
    /\ poison_list_overflowed
    /\ last.kind = "dispatch"
    /\ last.op = OP_SANITIZE_OVERWRITE
    /\ last.ret = "BG_STARTED"
    /\ poison_list_cnt = 256

(***************************************************************************)
(* C23: an accepted scan media discards the prior results, moves every     *)
(* ground-truth record that overlaps the range into the results list and   *)
(* into the live list, and sets the overflow flag whenever one of them     *)
(* cannot be added to the live list because 256 records are live.          *)
(***************************************************************************)
C23_ScanMovesOrOverflows ==
    [][(Handled(OP_SCAN_MEDIA) /\ last'.ret = "BG_STARTED") =>
          LET qs == last'.pl.dpa
              qe == qs + last'.pl.nlines * 64
              over(r) == r.start < qe /\ qs < r.start + r.length
              moved == SelectSeq(poison_list_bkp, over)
              live(r) == \E i \in 1..Len(poison_list') : poison_list'[i] = r
          IN /\ scan_media_results' = Reverse(moved)
             /\ poison_list_bkp' = SelectSeq(poison_list_bkp, LAMBDA r : ~over(r))
             /\ \/ \A k \in 1..Len(moved) : live(moved[k])
                \/ poison_list_overflowed']_vars

(***************************************************************************)
(* C24: Get Scan Media Results is answered UNSUPPORTED, and changes        *)
(* nothing, as long as no scan media has finalized, the time during which  *)
(* the first scan runs included; once a scan has finalized it is never     *)
(* answered UNSUPPORTED again.  The flag scan_media_hasrun records exactly *)
(* that: it is clear at first, set by every tick that finalizes a scan,    *)
(* changed by no other step and never cleared.                             *)
(***************************************************************************)
C24_ResultsAfterFirstScan ==
    /\ [][/\ ScanFinalizes => scan_media_hasrun'
          /\ scan_media_hasrun => scan_media_hasrun'
          /\ (~scan_media_hasrun /\ scan_media_hasrun') => ScanFinalizes]_vars
    /\ [](last.kind = "init" => ~scan_media_hasrun)
    /\ [][Handled(OP_GET_SCAN_MEDIA_RESULTS) =>
             IF scan_media_hasrun
             THEN last'.ret # "UNSUPPORTED"
             ELSE last'.ret = "UNSUPPORTED" /\ last'.out = <<>> /\ DeviceUnchanged]_vars

\* The results were asked for while the first scan was still running.
C24_Witness ==
    /\ last.kind = "dispatch"
    /\ last.op = OP_GET_SCAN_MEDIA_RESULTS
    /\ last.ret = "UNSUPPORTED"
    /\ Running(bg)
    /\ bg.opcode = OP_SCAN_MEDIA
    /\ Len(scan_media_results) > 0
    /\ ~scan_media_hasrun

(***************************************************************************)
(* C25: once a scan has finalized, each Get Scan Media Results takes the   *)
(* records it returns from the head of the results list, in list order,    *)
(* as many as the largest mailbox payload holds, and leaves the others     *)
(* queued, so that every queued record is returned exactly once; the       *)
(* response is no longer than the largest payload, and its 'more' flag is  *)
(* set exactly when records remain queued after the call.                  *)
(***************************************************************************)
C25_ResultsDrainInOrder ==
    [][(Handled(OP_GET_SCAN_MEDIA_RESULTS) /\ scan_media_hasrun) =>
          LET out == last'.out
              n == out.count
              q == scan_media_results
          IN /\ last'.ret = "SUCCESS"
             /\ n <= Len(q)
             /\ Len(out.records) = n
             /\ \A i \in 1..n :
                    /\ out.records[i].addr = q[i].start + q[i].type
                    /\ out.records[i].length * 64 = q[i].length
             /\ scan_media_results' = SubSeq(q, n + 1, Len(q))
             /\ out.len_out = 32 + 16 * n
             /\ out.len_out <= 2048
             /\ n < Len(q) => 32 + 16 * (n + 1) > 2048
             /\ (out.flags = 1) <=> (Len(scan_media_results') > 0)
             /\ out.flags \in {0, 1}
             /\ UNCHANGED <<poison_list, poison_list_cnt, poison_list_bkp,
                            poison_list_overflowed, bg, bg_timer>>]_vars

\* A call returned a full response and left four records queued.
C25_Witness ==
    /\ last.kind = "dispatch"
    /\ last.op = OP_GET_SCAN_MEDIA_RESULTS
    /\ last.ret = "SUCCESS"
    /\ last.out.count = 126
    /\ last.out.flags = 1
    /\ Len(scan_media_results) = 4
    /\ ~Running(bg)

\* Two extents cover a common address.
ExtentsOverlap(a, b) ==
    a.start_dpa < b.start_dpa + b.len /\ b.start_dpa < a.start_dpa + a.len

\* This step runs the handler of Add Dynamic Capacity Response or of Release
\* Dynamic Capacity.
HandledExtentList ==
    Handled(OP_ADD_DYN_CAP_RSP) \/ Handled(OP_RELEASE_DYN_CAP)

(***************************************************************************)
(* C26: after any sequence of Add Dynamic Capacity Response and Release    *)
(* Dynamic Capacity commands, no two extents of the extent list cover a    *)
(* common address.                                                         *)
(***************************************************************************)
C26_ExtentsDisjoint ==
    \A i, j \in 1..Len(dc.extents) :
        i # j => ~ExtentsOverlap(dc.extents[i], dc.extents[j])

\* A release has split the extent of the last two blocks of the first
\* region while the extent next to it stays: two adjacent extents.
C26_Witness ==
    /\ last.kind = "dispatch"
    /\ last.op = OP_RELEASE_DYN_CAP
    /\ last.ret = "SUCCESS"
    /\ Len(dc.extents) >= 2
    /\ \E i, j \in 1..Len(dc.extents) :
           /\ dc.extents[i].start_dpa + dc.extents[i].len = dc.extents[j].start_dpa
           /\ dc.extents[i].len = DcBlock

\* The extent lies inside region r and is made of whole blocks of it.
ExtentInRegion(ent, r) ==
    /\ r.base <= ent.start_dpa
    /\ ent.start_dpa + ent.len <= r.base + r.len
    /\ ent.start_dpa % r.block_size = 0
    /\ ent.len % r.block_size = 0

(***************************************************************************)
(* C27: after any sequence of Add Dynamic Capacity Response and Release    *)
(* Dynamic Capacity commands, every extent of the extent list lies inside  *)
(* a single region, not past its end nor into the next region, and its     *)
(* start and its length are multiples of that region's block size.         *)
(***************************************************************************)
C27_ExtentsInsideRegion ==
    \A i \in 1..Len(dc.extents) :
        \E r \in 1..Len(dc.regions) :
            ExtentInRegion(dc.extents[i], dc.regions[r])

\* The blocks of the finest granularity that an entry covers.
BlocksOf(d, e) ==
    {b \in (e.start_dpa \div min_block_size(d))..
           ((e.start_dpa + e.len - 1) \div min_block_size(d)) : e.len > 0}

\* The entry resolves to a region and is made of whole blocks of it.
EntryWellFormed(d, e) ==
    LET r == cxl_find_dc_region(d, e.start_dpa, e.len)
    IN /\ r # 0
       /\ e.start_dpa % d.regions[r].block_size = 0
       /\ e.len % d.regions[r].block_size = 0

\* Two entries of the list cover a common block.
SharesBlock(d, in) ==
    \E i, j \in 1..Len(in) :
        i # j /\ BlocksOf(d, in[i]) \cap BlocksOf(d, in[j]) # {}

(***************************************************************************)
(* C28: the validation of an updated extent list answers                   *)
(* INVALID_EXTENT_LIST for every list in which two entries cover a common  *)
(* block of the finest block size, also when the second entry overlaps the *)
(* first only in part and each entry alone resolves to a region and is     *)
(* block-aligned.                                                          *)
(***************************************************************************)
C28_SharedBlockRejected ==
    [][(/\ HandledExtentList
        /\ \A i \in 1..Len(last'.pl.entries) :
               EntryWellFormed(dc, last'.pl.entries[i])
        /\ SharesBlock(dc, last'.pl.entries))
       => cxl_detect_malformed_extent_list(dc, last'.pl.entries,
                                           last'.pl.beyond)
              = "INVALID_EXTENT_LIST"]_vars

(***************************************************************************)
(* C29: whenever Add Dynamic Capacity Response or Release Dynamic Capacity *)
(* answers a status other than SUCCESS, the extent list after the call is  *)
(* the extent list before the call: no earlier entry of the list has been  *)
(* added, removed or split.                                                *)
(***************************************************************************)
C29_FailureLeavesLedger ==
    [][(HandledExtentList /\ last'.ret # "SUCCESS") => dc' = dc]_vars

\* The call stops before it commits an entry: the list is empty or its
\* validation does not pass.
StopsAtValidation(d, pl) ==
    \/ Len(pl.entries) = 0
    \/ cxl_detect_malformed_extent_list(d, pl.entries, pl.beyond) # "SUCCESS"

(***************************************************************************)
(* C29, amended: whenever Add Dynamic Capacity Response or Release Dynamic *)
(* Capacity answers for an empty list or with the status of a failed batch *)
(* validation, the extent list after the call is the extent list before    *)
(* the call.  (A status found while the entries are committed, an entry    *)
(* that conflicts with the extent list or matches no extent, is answered   *)
(* with the earlier entries of the list committed.)                        *)
(***************************************************************************)
C29_ValidationFailureLeavesLedger ==
    [][(HandledExtentList /\ StopsAtValidation(dc, last'.pl)) =>
           /\ dc' = dc
           /\ Len(last'.pl.entries) > 0 =>
                  last'.ret = cxl_detect_malformed_extent_list(
                                  dc, last'.pl.entries, last'.pl.beyond)]_vars

\* The validation of a list failed at its second entry, with extents stored.
C29_Witness ==
    /\ last.kind = "dispatch"
    /\ last.op \in DcdOpcodes
    /\ last.ret = "INVALID_EXTENT_LIST"
    /\ Len(last.pl.entries) = 2
    /\ last.pl.entries[1] = last.pl.entries[2]
    /\ Len(dc.extents) >= 1

\* The entries of the list are block-aligned and no two cover a common
\* address.
DisjointAligned(d, in) ==
    /\ \A i \in 1..Len(in) : EntryWellFormed(d, in[i])
    /\ \A i, j \in 1..Len(in) :
           i # j => ~ExtentsOverlap(in[i], in[j])

(***************************************************************************)
(* C30: for every list E of pairwise non-overlapping, block-aligned        *)
(* entries that Add Dynamic Capacity Response accepts, a Release Dynamic   *)
(* Capacity of E right after it answers SUCCESS and leaves the total       *)
(* extent count and the extent list, extents and order, as they were       *)
(* before the add.                                                         *)
(***************************************************************************)
C30_AddThenRelease ==
    [][(/\ Handled(OP_ADD_DYN_CAP_RSP)
        /\ last'.ret = "SUCCESS"
        /\ Len(last'.pl.entries) > 0
        /\ DisjointAligned(dc, last'.pl.entries))
       => \A y \in BeyondBitmap :
              LET r == cmd_dcd_release_dyn_cap(DevState', last'.pl.entries, y)
              IN /\ r.ret = "SUCCESS"
                 /\ r.s.dc.total_extent_count = dc.total_extent_count
                 /\ r.s.dc.extents = dc.extents]_vars

(***************************************************************************)
(* C31: the generation number that Get Dynamic Capacity Extent List        *)
(* reports changes with every mutation of the extent list: after an Add    *)
(* Dynamic Capacity Response or a Release Dynamic Capacity that answers    *)
(* SUCCESS and adds, removes or splits an extent, the number reported is   *)
(* not the number reported before.                                         *)
(***************************************************************************)
C31_GenerationChanges ==
    [][(/\ HandledExtentList
        /\ last'.ret = "SUCCESS"
        /\ dc'.extents # dc.extents)
       => \A q \in ExtListQueries :
              ExtListResponse(dc', q[1], q[2]).generation_num
                  # ExtListResponse(dc, q[1], q[2]).generation_num]_vars

(***************************************************************************)
(* C32: after any sequence of Add Dynamic Capacity Response and Release    *)
(* Dynamic Capacity commands, the total that Get Dynamic Capacity Extent   *)
(* List reports is the number of extents in the extent list, and a query   *)
(* (extent_cnt, start_extent_id) with start_extent_id not above that       *)
(* number returns min(extent_cnt, number - start_extent_id) extents: those *)
(* of the list from position start_extent_id on, in list order.            *)
(***************************************************************************)
C32_ExtListMatchesLedger ==
    \A q \in ExtListQueries :
        LET n == Len(dc.extents)
            r == cmd_dcd_get_dyn_cap_ext_list(DevState, q[1], q[2])
            out == ExtListResponse(dc, q[1], q[2])
        IN /\ out.total_extents = n
           /\ q[2] <= n =>
                  /\ r.ret = "SUCCESS"
                  /\ out.count = Min({q[1], n - q[2]})
                  /\ out.records = SubSeq(dc.extents, q[2] + 1, q[2] + out.count)

\* The set of the extents of a list.
ExtentSet(list) == {list[k] : k \in 1..Len(list)}

\* What remains of extent X around the entry e that it contains: at most
\* two extents with the tag and the sequence number of X.
Remainders(X, e) ==
    (IF e.start_dpa > X.start_dpa
     THEN {CXLDCDExtent(X.start_dpa, e.start_dpa - X.start_dpa,
                        X.tag, X.shared_seq)}
     ELSE {})
    \cup
    (IF X.start_dpa + X.len > e.start_dpa + e.len
     THEN {CXLDCDExtent(e.start_dpa + e.len,
                        X.start_dpa + X.len - e.start_dpa - e.len,
                        X.tag, X.shared_seq)}
     ELSE {})

\* The entry as an extent, to compare ranges.
AsExtent(e) == CXLDCDExtent(e.start_dpa, e.len, NullTag, 0)

\* A release entry by entry on a set of extents: the status, and the set
\* after the entries before the first one that fails.
RECURSIVE ReleaseBySet(_, _, _)
ReleaseBySet(S, in, i) ==
    IF i > Len(in) THEN [ret |-> "SUCCESS", extents |-> S]
    ELSE
      LET e == in[i]
          C == {X \in S : /\ X.start_dpa <= e.start_dpa
                          /\ e.start_dpa + e.len <= X.start_dpa + X.len}
      IN IF C # {}
         THEN LET X == CHOOSE X \in C : TRUE
              IN ReleaseBySet((S \ {X}) \cup Remainders(X, e), in, i + 1)
         ELSE IF \E X \in S : ExtentsOverlap(X, AsExtent(e))
         THEN [ret |-> "INVALID_EXTENT_LIST", extents |-> S]
         ELSE [ret |-> "INVALID_PA", extents |-> S]

(***************************************************************************)
(* C33: for each entry of a Release Dynamic Capacity list that passes      *)
(* validation: an extent X that contains the entry is removed and replaced *)
(* by at most two remainders that cover X without the entry and carry the  *)
(* tag and the sequence number of X; an entry that overlaps an extent      *)
(* without being contained is answered INVALID_EXTENT_LIST; an entry that  *)
(* overlaps no extent is answered INVALID_PA.                              *)
(***************************************************************************)
C33_ReleasePerEntry ==
    [][(/\ Handled(OP_RELEASE_DYN_CAP)
        /\ ~StopsAtValidation(dc, last'.pl))
       => LET r == ReleaseBySet(ExtentSet(dc.extents), last'.pl.entries, 1)
          IN /\ last'.ret = r.ret
             /\ ExtentSet(dc'.extents) = r.extents
             /\ Len(dc'.extents) = Cardinality(r.extents)]_vars

\* A release has left two remainders of the four-block extent, around its
\* second block.
C33_Witness ==
    /\ last.kind = "dispatch"
    /\ last.op = OP_RELEASE_DYN_CAP
    /\ last.ret = "SUCCESS"
    /\ Len(last.pl.entries) = 1
    /\ last.pl.entries[1].len = DcBlock
    /\ \E i, j \in 1..Len(dc.extents) :
           /\ dc.extents[i].start_dpa + dc.extents[i].len
                  = last.pl.entries[1].start_dpa
           /\ dc.extents[j].start_dpa
                  = last.pl.entries[1].start_dpa + DcBlock
           /\ dc.extents[j].len = 2 * DcBlock

(***************************************************************************)
(* C34: Release Dynamic Capacity with no entry answers INVALID_INPUT, Add  *)
(* Dynamic Capacity Response with no entry answers SUCCESS, and both leave *)
(* the extent list as it is.                                               *)
(***************************************************************************)
C34_EmptyBatches ==
    [][(HandledExtentList /\ Len(last'.pl.entries) = 0)
       => /\ dc' = dc
          /\ last'.op = OP_RELEASE_DYN_CAP => last'.ret = "INVALID_INPUT"
          /\ last'.op = OP_ADD_DYN_CAP_RSP => last'.ret = "SUCCESS"]_vars

\* An empty release has been refused with extents stored.
C34_Witness ==
    /\ last.kind = "dispatch"
    /\ last.op = OP_RELEASE_DYN_CAP
    /\ last.invoked
    /\ Len(last.pl.entries) = 0
    /\ last.ret = "INVALID_INPUT"
    /\ Len(dc.extents) >= 2

(***************************************************************************)
(* C35: a tunnel request whose target type is not that of the device at    *)
(* the port is answered with an error status and is not relayed: its       *)
(* embedded message is not processed by any device behind the port.        *)
(***************************************************************************)
C35_FabricTargetRejected ==
    [][(Handled(OP_TUNNEL_MANAGEMENT) /\ last'.pl.tunnel.target_type # 0)
       => /\ last'.ret # "SUCCESS"
          /\ last'.out = <<>>]_vars


\* C36: after the initialisation of a context and after every merge of a
\* command table, the Command Effects Log has exactly one entry for each
\* populated slot of the installed table, holding the slot's opcode and the
\* effect of its command, and no other entry; cel_size is the number of
\* populated slots and the entries are in strictly ascending opcode order.
C36_CelMatchesTable ==
    /\ Len(cel_log) = Cardinality(cxl_cmd_set)
    /\ {cel_log[k].opcode : k \in 1..Len(cel_log)} = cxl_cmd_set
    /\ \A k \in 1..Len(cel_log) :
           cel_log[k].effect = Descriptor(cel_log[k].opcode).effect
    /\ \A k \in 1..(Len(cel_log) - 1) : cel_log[k].opcode < cel_log[k + 1].opcode

\* A merge has added populated slots to the table of an initialised context.
C36_Witness ==
    /\ last.kind = "add_commands"
    /\ DOMAIN cxl_cmd_set_dcd \subseteq cxl_cmd_set
    /\ DOMAIN cxl_cmd_set_sw \subseteq cxl_cmd_set
    /\ DOMAIN cxl_cmd_set_t3 \subseteq cxl_cmd_set

\* C37: the callback bg_timercb only runs while the tracker is RUNNING, so
\* its assertion that the duration is greater than zero holds at every tick
\* of every interleaving of commands, ticks and clock steps; a tick is
\* pending only while an operation runs: it is scheduled when a background
\* operation starts or by a tick that does not finalize, never by the
\* finalizing one.
C37_TickOnlyWhileRunning ==
    [][/\ IsTickStep => (Running(bg) /\ last'.ret # "ABORT")
       /\ bg_timer' # NoTimer => Running(bg')
       /\ (bg_timer' # NoTimer /\ bg_timer' # bg_timer)
          => \/ IsDispatchStep /\ last'.bg_started
             \/ IsTickStep /\ Running(bg')]_vars

\* A tick that did not finalize and then the finalizing tick have run.
C37_Witness ==
    /\ last.kind = "tick"
    /\ bg_ticks >= 2
    /\ ~Running(bg)
    /\ bg_timer = NoTimer

\* The validator reaches its bitmap test for entry i of the list: the
\* entries before it pass and the entry resolves to a region and is made of
\* whole blocks of it.
ReachesBitmapTest(d, in, i, beyond) ==
    /\ cxl_detect_malformed_extent_list(d, SubSeq(in, 1, i - 1), beyond) = "SUCCESS"
    /\ EntryWellFormed(d, in[i])

\* The block indices test_bits and bitmap_set are given for the entry.
BitmapIndices(d, e) ==
    LET nr == e.start_dpa \div min_block_size(d)
        size == e.len \div min_block_size(d)
    IN nr..(nr + size - 1)

(***************************************************************************)
(* C38: for every entry of an updated extent list for which the validator  *)
(* reaches its bitmap test, every block index tested and set is an index   *)
(* of blk_bitmap: at least 0 and less than the number of bits the bitmap   *)
(* was created with, whatever the base of the first region and the length  *)
(* of the entry.                                                           *)
(***************************************************************************)
C38_BitmapIndicesInside ==
    (/\ last.kind = "dispatch"
     /\ last.invoked
     /\ last.op \in {OP_ADD_DYN_CAP_RSP, OP_RELEASE_DYN_CAP})
    => \A i \in 1..Len(last.pl.entries) :
           ReachesBitmapTest(dc, last.pl.entries, i, last.pl.beyond)
           => \A b \in BitmapIndices(dc, last.pl.entries[i]) :
                  0 <= b /\ b < BlkBitmapBits(dc)

(***************************************************************************)
(* C39: when a scan media started while the overflow flag was set and      *)
(* every ground-truth record it moved was inserted into the rebuilt live   *)
(* list, the overflow flag is clear after the tick that finalizes that     *)
(* scan, whatever commands (Get Scan Media Results among them) were        *)
(* processed between the start and that tick.                              *)
(***************************************************************************)
C39_OverflowClearedAtFinalize ==
    [][(ScanFinalizes /\ scan_start[1] /\ scan_start[2] = 0)
       => ~poison_list_overflowed']_vars

(***************************************************************************)
(* C40: in test_policy_ctl.c every thread reads its own creation index     *)
(* through the pointer it is given, so the thread created k-th (counting   *)
(* from 1) reports thread number k in every interleaving of the creating   *)
(* loop with the start of the thread; and test_per_thread has returned     *)
(* only when every thread it was to create has been created and has        *)
(* terminated.                                                             *)
(***************************************************************************)
C40_ThreadsSeeOwnIndex ==
    /\ \A k \in 1..Len(per_thread.thd) :
           per_thread.thd[k].pc # "start" => per_thread.thd[k].thread_num = k
    /\ per_thread.pc = "returned"
       => /\ Len(per_thread.thd) = per_thread.nthreads
          /\ \A k \in 1..Len(per_thread.thd) : per_thread.thd[k].pc = "done"

============================================================================
